---------------------------- MODULE Spec2Model ----------------------------
(***************************************************************************)
(* BeehiveMQTT: a model of the broker core (beehivemqtt/broker.py,         *)
(* router.py, qos.py, session.py, topic.py, retained.py).                  *)
(*                                                                         *)
(* Session objects live in a heap indexed by the connection that created   *)
(* them; the session table maps a client id to a heap index.  Every        *)
(* connection is one cooperative task; a task gives up control only where  *)
(* the code awaits something that can suspend: a socket read, the drain of *)
(* a send, and writer.wait_closed().  Hooks are taken to be synchronous.   *)
(* Time is not modelled: a keep-alive may expire at any moment.            *)
(***************************************************************************)
EXTENDS Integers, Sequences, FiniteSets, TLC

\* ------------------------------------------------------------------ bounds
MaxConns == 2
MaxPid == 2
MaxPackets == 2

\* ------------------------------------------------------- broker configuration
max_inflight == 2
qos_max_retries == 1
max_queued_messages == 2
max_clients == 3
max_payload_size == 1
PacketIdLimit == 65535

\* ------------------------------------------------------------- value sets
Conns == 1..MaxConns
\* The task of _keep_alive_monitor, beside the connection tasks.
KA == 0
\* The task of the application that calls the broker's API.
Admin == MaxConns + 1
\* The task of _retransmit_task.
Retx == MaxConns + 2
Shut == MaxConns + 3
Tasks == Conns \cup {KA, Admin, Retx, Shut}
\* A session made by a connection that ended before the first one of Conns.
Stored == MaxConns + 1
Objs == Conns \cup {Stored}
Clients == {"a", "b"}
Pids == 1..MaxPid
QoS == 0..2
Topics == {<<"t">>}
Filters == {<<"t">>, <<"#">>}
Payloads == {"x"}
SysLevels == {"$SYS", "$"}

NoSub == -1
NoWill == [set |-> FALSE]
NoSession == [client_id |-> "none"]
NoRoute == [called |-> FALSE]
\* sender_id of a publish that the broker itself originates (None)
NoSender == "null"

\* QoS2Inbound.state
PUBREC_SENT == 0
PUBCOMP_SENT == 1
\* QoS2Outbound.state
AWAITING_PUBREC == 0
AWAITING_PUBCOMP == 1

Min(x, y) == IF x <= y THEN x ELSE y

Without(f, k) == [x \in (DOMAIN f) \ {k} |-> f[x]]

With(f, k, v) == [x \in (DOMAIN f) \cup {k} |-> IF x = k THEN v ELSE f[x]]

\* ---------------------------------------------------------------- Session
\* ClientSession.__init__
ClientSession(cid, clean) ==
    [client_id |-> cid,
     clean_session |-> clean,
     connected |-> FALSE,
     subscriptions |-> [f \in Filters |-> NoSub],
     keep_alive |-> 0,
     will |-> NoWill,
     writer |-> 0,
     write_lock |-> 0,
     packet_id_counter |-> 0,
     pending_qos1 |-> <<>>,
     pending_qos2 |-> <<>>,
     pending_qos2_out |-> <<>>,
     queued_messages |-> <<>>]

\* ClientSession.next_packet_id: the session after the call; the id it
\* returns is the new counter.
next_packet_id(s) ==
    [s EXCEPT !.packet_id_counter =
        IF s.packet_id_counter + 1 > PacketIdLimit THEN 1 ELSE s.packet_id_counter + 1]

\* ClientSession.queue_message: [s: the session afterwards, raised: pop(0)
\* was called on an empty list (IndexError), which leaves the queue as it was].
queue_message(s, topic, payload, qos, max_queued) ==
    LET full == Len(s.queued_messages) >= max_queued
        q == IF full THEN Tail(s.queued_messages) ELSE s.queued_messages
    IN IF full /\ s.queued_messages = <<>>
       THEN [s |-> s, raised |-> TRUE]
       ELSE [s |-> [s EXCEPT !.queued_messages =
                       Append(q, [topic |-> topic, payload |-> payload, qos |-> qos])],
             raised |-> FALSE]

\* ------------------------------------------------------------- QoSManager
\* Time is counted in retry intervals back from the present: ticks_ms() is
\* 0, and the timestamp of an entry is 0 while less than qos_retry_interval
\* has passed since it was set, and -1 from then on.
ticks_ms == 0

ticks_diff(new, old) == new - old

track_outbound_qos1(s, pid, topic, payload, qos) ==
    [s EXCEPT !.pending_qos1 =
        With(s.pending_qos1, pid,
             [topic |-> topic, payload |-> payload, qos |-> qos, retry_count |-> 0,
              timestamp |-> ticks_ms])]

handle_puback_drop_all(s, pid) ==
    [ret |-> pid \in DOMAIN s.pending_qos1,
     s |-> [s EXCEPT !.pending_qos1 = Without(s.pending_qos1, pid),
                     !.pending_qos2_out = Without(s.pending_qos2_out, pid)]]

handle_puback(s, pid) ==
    IF pid \in DOMAIN s.pending_qos1
    THEN [ret |-> TRUE, s |-> [s EXCEPT !.pending_qos1 = Without(s.pending_qos1, pid)]]
    ELSE [ret |-> FALSE, s |-> s]

track_inbound_qos2(s, pid, topic, payload, retain) ==
    [s EXCEPT !.pending_qos2 =
        With(s.pending_qos2, pid,
             [topic |-> topic, payload |-> payload, retain |-> retain,
              state |-> PUBREC_SENT])]

\* handle_pubrel: ret.found is "result is not None"; the entry stays in the
\* table with state PUBCOMP_SENT.
handle_pubrel(s, pid) ==
    IF pid \notin DOMAIN s.pending_qos2
    THEN [found |-> FALSE, s |-> s]
    ELSE [found |-> TRUE,
          topic |-> s.pending_qos2[pid].topic,
          payload |-> s.pending_qos2[pid].payload,
          retain |-> s.pending_qos2[pid].retain,
          s |-> [s EXCEPT !.pending_qos2[pid].state = PUBCOMP_SENT]]

track_outbound_qos2(s, pid, topic, payload) ==
    [s EXCEPT !.pending_qos2_out =
        With(s.pending_qos2_out, pid,
             [topic |-> topic, payload |-> payload, state |-> AWAITING_PUBREC,
              retry_count |-> 0, timestamp |-> ticks_ms])]

handle_pubrec(s, pid) ==
    IF pid \notin DOMAIN s.pending_qos2_out
    THEN [ret |-> FALSE, s |-> s]
    ELSE IF s.pending_qos2_out[pid].state = AWAITING_PUBREC
         THEN [ret |-> TRUE,
               s |-> [s EXCEPT !.pending_qos2_out[pid].state = AWAITING_PUBCOMP,
                               !.pending_qos2_out[pid].timestamp = ticks_ms]]
         ELSE [ret |-> FALSE, s |-> s]

handle_pubcomp(s, pid) ==
    IF pid \in DOMAIN s.pending_qos2_out
    THEN [ret |-> TRUE,
          s |-> [s EXCEPT !.pending_qos2_out = Without(s.pending_qos2_out, pid)]]
    ELSE IF pid \in DOMAIN s.pending_qos2
         THEN [ret |-> TRUE,
               s |-> [s EXCEPT !.pending_qos2 = Without(s.pending_qos2, pid)]]
         ELSE [ret |-> FALSE, s |-> s]

\* The table that a loop of retransmit_pending walks: 1 is pending_qos1,
\* 2 is pending_qos2_out.
PendingTable(s, table) == IF table = 1 THEN s.pending_qos1 ELSE s.pending_qos2_out

WithPendingTable(s, table, tbl) ==
    IF table = 1 THEN [s EXCEPT !.pending_qos1 = tbl]
    ELSE [s EXCEPT !.pending_qos2_out = tbl]

\* The iterator a loop of retransmit_pending starts with; size is the
\* length of the dict that the iterator remembers.
NewIterator(s, table) ==
    [table |-> table, visited |-> {}, to_remove |-> {},
     size |-> Cardinality(DOMAIN PendingTable(s, table)), pid |-> 0, count |-> 0,
     state |-> 0]

\* retransmit_pending (qos.py 148-205) from the iterator f to its next
\* await or to its end.  [kind: "send" (a packet is built and session.send
\* is awaited), "done", or "raise" (del of a key that is gone, KeyError),
\* s: the session, f: the iterator].
RECURSIVE retransmit_scan(_, _, _)
retransmit_scan(s, f, max_retries) ==
    LET tbl == PendingTable(s, f.table)
        rest == (DOMAIN tbl) \ f.visited
    IN IF rest # {}
       THEN LET pid == CHOOSE x \in rest : \A y \in rest : x <= y
                entry == tbl[pid]
                f1 == [f EXCEPT !.visited = @ \cup {pid}]
            IN IF ticks_diff(ticks_ms, entry.timestamp) < 1
               THEN retransmit_scan(s, f1, max_retries)
               ELSE IF entry.retry_count >= max_retries
               THEN retransmit_scan(s, [f1 EXCEPT !.to_remove = @ \cup {pid}],
                                    max_retries)
               ELSE [kind |-> "send", s |-> s,
                     f |-> [f1 EXCEPT !.pid = pid, !.count = entry.retry_count,
                                      !.state = IF f.table = 1 THEN 0 ELSE entry.state]]
       ELSE IF ~(f.to_remove \subseteq DOMAIN tbl)
       THEN [kind |-> "raise", s |-> s, f |-> f]
       ELSE LET s1 == WithPendingTable(s, f.table,
                                       [x \in (DOMAIN tbl) \ f.to_remove |-> tbl[x]])
            IN IF f.table = 1
               THEN retransmit_scan(s1, NewIterator(s1, 2), max_retries)
               ELSE [kind |-> "done", s |-> s1, f |-> f]

retransmit_pending(s, max_retries) == retransmit_scan(s, NewIterator(s, 1), max_retries)

\* retransmit_pending after the await of session.send: the entry that was
\* sent counts one more retry, and the for statement asks the iterator for
\* the next item.  detects: the dict iterator raises RuntimeError when the
\* dict has changed size (CPython); MicroPython's does not.
retransmit_resume(s, f, max_retries, detects) ==
    LET tbl == PendingTable(s, f.table)
        same == /\ f.pid \in DOMAIN tbl
                /\ tbl[f.pid].retry_count = f.count
                /\ \/ tbl[f.pid].timestamp < ticks_ms
                   \/ /\ f.table = 2
                      /\ f.state = AWAITING_PUBREC
                      /\ tbl[f.pid].state = AWAITING_PUBCOMP
        s1 == IF same
              THEN WithPendingTable(s, f.table,
                                    [tbl EXCEPT ![f.pid].retry_count = @ + 1,
                                                ![f.pid].timestamp = ticks_ms])
              ELSE s
    IN IF detects /\ Cardinality(DOMAIN tbl) # f.size
       THEN [kind |-> "raise", s |-> s1, f |-> f]
       ELSE retransmit_scan(s1, f, max_retries)

get_inflight_count(s) ==
    Cardinality(DOMAIN s.pending_qos1) + Cardinality(DOMAIN s.pending_qos2)
        + Cardinality(DOMAIN s.pending_qos2_out)

\* -------------------------------------------------------------- TopicTree
\* The trie is kept as its subscriber maps, one per filter path; a path that
\* holds no subscriber behaves as a node that does not exist.
EmptyTree == [f \in Filters |-> [c \in Clients |-> NoSub]]

subscribe_nothing(tree, filter, cid, qos) == tree

subscribe(tree, filter, cid, qos) == [tree EXCEPT ![filter][cid] = qos]

unsubscribe(tree, filter, cid) == [tree EXCEPT ![filter][cid] = NoSub]

unsubscribe_all(tree, cid) == [f \in Filters |-> [tree[f] EXCEPT ![cid] = NoSub]]

\* The node paths whose subscribers TopicTree.match collects for the topic
\* levels, in the order the stack walk collects them: the '#' child while a
\* node is expanded, then the '+' subtree (pushed last, popped first), then
\* the exact child.
starts_with_dollar_never(level) == FALSE

\* str.startswith('$') on one topic level.
starts_with_dollar(level) == level \in SysLevels

RECURSIVE MatchWalk(_, _, _)
MatchWalk(path, i, levels) ==
    IF i = Len(levels)
    THEN <<path, Append(path, "#")>>
    ELSE LET is_system_topic == (i = 0) /\ starts_with_dollar(levels[1])
             hash == IF is_system_topic THEN <<>> ELSE <<Append(path, "#")>>
             plus == IF is_system_topic THEN <<>>
                     ELSE MatchWalk(Append(path, "+"), i + 1, levels)
         IN hash \o plus \o MatchWalk(Append(path, levels[i + 1]), i + 1, levels)

MatchOrder(tree, topic) ==
    SelectSeq(MatchWalk(<<>>, 0, topic), LAMBDA f : f \in DOMAIN tree)

\* TopicTree.match: client id -> granted QoS; a later collected node
\* overwrites an earlier one (dict.update).
match(tree, topic) ==
    LET order == MatchOrder(tree, topic)
        hits(c) == {k \in 1..Len(order) : tree[order[k]][c] # NoSub}
        latest(c) == CHOOSE k \in hits(c) : \A j \in hits(c) : j <= k
    IN [c \in {c \in Clients : hits(c) # {}} |-> tree[order[latest(c)]][c]]

\* ---------------------------------------------------------- RetainedStore
max_retained_messages == 1
NoMsg == [set |-> FALSE]
EmptyRetained == [t \in Topics |-> NoMsg]

set_retained(ret, topic, payload, qos) ==
    [ret EXCEPT ![topic] = IF payload = "" THEN NoMsg
                           ELSE [set |-> TRUE, payload |-> payload, qos |-> qos]]

get_retained_count(ret) == Cardinality({t \in DOMAIN ret : ret[t].set})

remove_lru(lru, topic) == SelectSeq(lru, LAMBDA t : t # topic)

lru_untouched(lru, topic) == lru

touch_lru(lru, topic) == Append(remove_lru(lru, topic), topic)

\* RetainedStore.set (retain_enabled is on) under the configured
\* max_retained_messages: [ret, lru] after the call.
retained_set(ret, lru, topic, payload, qos, max_retained) ==
    IF payload = ""
    THEN [ret |-> set_retained(ret, topic, "", 0), lru |-> remove_lru(lru, topic)]
    ELSE LET evict == (~ret[topic].set)
                        /\ get_retained_count(ret) >= max_retained
                        /\ lru # <<>>
             ret1 == IF evict THEN set_retained(ret, Head(lru), "", 0) ELSE ret
             lru1 == IF evict THEN Tail(lru) ELSE lru
         IN [ret |-> set_retained(ret1, topic, payload, qos),
             lru |-> touch_lru(lru1, topic)]

\* RetainedStore.clear(topic)
retained_clear(ret, lru, topic) ==
    [ret |-> set_retained(ret, topic, "", 0), lru |-> remove_lru(lru, topic)]

\* ----------------------------------------------------------------- Router
\* ClientSession.send: the write reaches the socket, or the OSError of a
\* closed socket is swallowed and the session marked not connected.
send(s, open) == IF open THEN s ELSE [s EXCEPT !.connected = FALSE]

PublishPkt(topic, payload, qos, retain, dup, pid) ==
    [type |-> "PUBLISH", topic |-> topic, payload |-> payload, qos |-> qos,
     retain |-> retain, dup |-> dup, pid |-> pid]

\* What queue_message did with a copy: queued, or raised.
queue_copy(s, topic, payload, qos, max_queued) ==
    LET r == queue_message(s, topic, payload, qos, max_queued)
    IN [s |-> r.s, how |-> IF r.raised THEN "raised" ELSE "queued",
        pkt |-> PublishPkt(topic, payload, qos, FALSE, FALSE, 0)]

\* MessageRouter._send_to_subscriber under the configuration cfg: [s: the
\* session afterwards, how: what happened to the copy, pkt: the packet built
\* (when one was)].
send_to_subscriber(cfg, s, open, topic, payload, effective_qos) ==
    IF effective_qos = 0
    THEN [s |-> send(s, open), how |-> "sent",
          pkt |-> PublishPkt(topic, payload, 0, FALSE, FALSE, 0)]
    ELSE IF get_inflight_count(s) >= cfg.max_inflight
         THEN queue_copy(s, topic, payload, effective_qos, cfg.max_queued_messages)
         ELSE LET s1 == next_packet_id(s)
                  pid == s1.packet_id_counter
                  s2 == send(s1, open)
              IN [s |-> IF effective_qos = 1
                        THEN track_outbound_qos1(s2, pid, topic, payload, 1)
                        ELSE track_outbound_qos2(s2, pid, topic, payload),
                  how |-> "sent",
                  pkt |-> PublishPkt(topic, payload, effective_qos, FALSE, FALSE, pid)]

effective_qos_granted(qos, granted_qos) == granted_qos

effective_qos(qos, granted_qos) == Min(qos, granted_qos)

skip_nobody(client_id, sender_id) == FALSE

\* route_publish line 117: the subscriber is the sender.
skip_sender(client_id, sender_id) == client_id = sender_id

\* What route_publish does for one matching subscriber whose session is s.
route_one(cfg, s, open, topic, payload, eff) ==
    IF s.connected
    THEN send_to_subscriber(cfg, s, open, topic, payload, eff)
    ELSE IF ~s.clean_session /\ eff > 0
         THEN queue_copy(s, topic, payload, eff, cfg.max_queued_messages)
         ELSE [s |-> s, how |-> "dropped",
               pkt |-> PublishPkt(topic, payload, eff, FALSE, FALSE, 0)]

\* MessageRouter.route_publish on the broker state B (a record of the
\* broker's structures).  The sessions of two matching client ids are two
\* objects, so the per-subscriber effects depend on the loop order only when
\* queue_message raises: the loop then ends at that subscriber, and B.order
\* is the order in which the dict of matches is walked.  route records the
\* call, the copies it made, and whether it raised.
route_publish(B, topic, payload, qos, retain, sender_id) ==
    LET rs == IF retain
              THEN (IF payload = ""
                    THEN retained_clear(B.retained, B.lru, topic)
                    ELSE retained_set(B.retained, B.lru, topic, payload, qos,
                                      B.config.max_retained_messages))
              ELSE [ret |-> B.retained, lru |-> B.lru]
        subscribers == match(B.subs, topic)
        targets == {c \in DOMAIN subscribers :
                       ~skip_sender(c, sender_id) /\ B.sessions[c] # 0}
        obj(c) == B.sessions[c]
        open(c) == B.heap[obj(c)].writer # 0 /\ B.sock[B.heap[obj(c)].writer] = "open"
        one(c) == route_one(B.config, B.heap[obj(c)], open(c), topic, payload,
                            effective_qos(qos, subscribers[c]))
        at(c) == CHOOSE k \in 1..Len(B.order) : B.order[k] = c
        raisers == {c \in targets : one(c).how = "raised"}
        reached == {c \in targets : \A r \in raisers : at(c) <= at(r)}
    IN [B EXCEPT
          !.retained = rs.ret,
          !.lru = rs.lru,
          !.heap = [o \in Objs |->
                       IF \E c \in reached : obj(c) = o
                       THEN one(CHOOSE c \in reached : obj(c) = o).s
                       ELSE B.heap[o]],
          !.route = [called |-> TRUE, topic |-> topic, payload |-> payload,
                     qos |-> qos, retain |-> retain, sender_id |-> sender_id,
                     granted |-> subscribers,
                     raised |-> raisers # {},
                     copies |-> {[client_id |-> c, obj |-> obj(c), how |-> one(c).how,
                                  pkt |-> one(c).pkt] : c \in reached}]]

\* MessageRouter.deliver_queued: the queue is taken and every message sent
\* in insertion order, QoS 1/2 with a fresh packet id and tracked, without
\* the inflight gate.
RECURSIVE deliver_each(_, _, _)
deliver_each(s, open, messages) ==
    IF messages = <<>> THEN [s |-> s, pkts |-> <<>>]
    ELSE LET m == Head(messages)
             s1 == IF m.qos = 0 THEN send(s, open)
                   ELSE LET s2 == send(next_packet_id(s), open)
                            pid == s2.packet_id_counter
                        IN IF m.qos = 1
                           THEN track_outbound_qos1(s2, pid, m.topic, m.payload, 1)
                           ELSE track_outbound_qos2(s2, pid, m.topic, m.payload)
             pkt == PublishPkt(m.topic, m.payload, m.qos, FALSE, FALSE,
                               IF m.qos = 0 THEN 0 ELSE s1.packet_id_counter)
             rest == deliver_each(s1, open, Tail(messages))
         IN [s |-> rest.s, pkts |-> <<pkt>> \o rest.pkts]

deliver_messages(s, open, messages) == deliver_each(s, open, messages).s

get_queued_messages_keep(s) == [s |-> s, messages |-> s.queued_messages]

\* ClientSession.get_queued_messages: [s: the session with its queue
\* cleared, messages: the queue it held].
get_queued_messages(s) ==
    [s |-> [s EXCEPT !.queued_messages = <<>>], messages |-> s.queued_messages]

\* [s: the session afterwards, pkts: the PUBLISH packets written, in order].
deliver_queued(s, open) ==
    LET g == get_queued_messages(s) IN deliver_each(g.s, open, g.messages)

\* ------------------------------------------------------------------ state
VARIABLES
    heap,       \* session objects: Objs -> ClientSession record or NoSession
    sessions,   \* MQTTBroker.sessions: client id -> heap index, 0 = no entry
    subs,       \* TopicTree subscriber maps
    retained,   \* TopicNode.retained slots
    lru,        \* RetainedStore._lru_order
    sock,       \* per connection: "new", "open", "closed" (StreamWriter)
    pc,         \* per task: where it is suspended
    sess,       \* per connection task: its local `session` (heap index, 0 = None)
    td,         \* per task: the _handle_disconnect call it is inside
    cdata,      \* per connection task: the CONNECT being processed
    npackets,   \* steady-state packets read so far
    route,      \* the route_publish call of a router step and its copies
    connack,    \* the CONNACK of the last step, and what was resolved for it
    willPub,    \* per connection: route_publish calls made with its will
    willLate,   \* per connection: its will was published after its DISCONNECT
    bye,        \* per connection: the calls of a registered on_disconnect hook
    discSent,   \* per connection: the client sent DISCONNECT on it
    inb,        \* per connection and inbound packet id: QoS 2 handshake history
    displaced,  \* per connection: its CONNECT tore down a connected session
    last,       \* the call of the last step, where a specification applies one
    config,     \* BrokerConfig and the hooks, fixed when the broker is built
    first       \* per connection: the first packet written to its socket

vars == <<heap, sessions, subs, retained, lru, sock, pc, sess, td, cdata, npackets,
          route, connack, willPub, willLate, bye, discSent, inb, displaced, last,
          config, first>>

NoTd == [obj |-> 0]
NoData == [client_id |-> "none"]
NoConnack == [sent |-> FALSE]
NoInb == [routed |-> 0, pubcomp |-> FALSE, refused |-> FALSE, released |-> FALSE]
NoCall == [op |-> "none"]

\* BrokerConfig (config.py) with the bounds of this model for its limits, no
\* hook, no interceptor and no auth provider.  hooks = "raise": every hook
\* is registered and raises an exception when called.  interceptors: what
\* each registered interceptor does, in registration order.
DefaultConfig ==
    [max_clients |-> max_clients,
     max_inflight |-> max_inflight,
     max_queued_messages |-> max_queued_messages,
     max_retained_messages |-> max_retained_messages,
     max_payload_size |-> max_payload_size,
     keep_alive_factor |-> 15, qos_max_retries |-> qos_max_retries,
     qos2_enabled |-> TRUE,
     on_connect |-> "none",
     authorize_publish |-> FALSE,
     hooks |-> "none",
     on_subscribe |-> "none",
     on_disconnect |-> "none",
     interceptors |-> <<>>]

\* The order in which a dict of matching client ids is walked when nothing
\* else is said: it has no effect unless queue_message raises.
DictOrder == <<"a", "b">>

\* MQTTBroker._running: serve sets it (line 232) and the first statement of
\* shutdown clears it (line 1101).
running == pc[Shut] = "new"

\* The broker structures that the router and the teardown work on.  route
\* and connack start empty in every step.
Broker ==
    [heap |-> heap, sessions |-> sessions, subs |-> subs, retained |-> retained,
     lru |-> lru, sock |-> sock, route |-> NoRoute, connack |-> NoConnack,
     willPub |-> willPub, willLate |-> willLate, discSent |-> discSent,
     bye |-> bye, config |-> config, order |-> DictOrder]

\* Session objects that nothing refers to any more are dropped.
Collect(h, tbl, pcs, ss, tds) ==
    LET ref == {tbl[k] : k \in Clients}
                 \cup {ss[c] : c \in {k \in Tasks : pcs[k] # "done"}}
                 \cup {tds[c].obj : c \in Tasks}
    IN [o \in Objs |-> IF o \in ref THEN h[o] ELSE NoSession]

\* The step of task c ends: broker structures B, the task at pcv
\* with session sv inside the teardown call tv, processing the CONNECT dv.
\* keep: route keeps the route_publish call of the step, with the session
\* objects as they were before it.
CommitKeep(after, c, pcv, sv, tv, dv, keep) ==
    \E B \in {after} :
    /\ pc' = [pc EXCEPT ![c] = pcv]
    /\ sess' = [sess EXCEPT ![c] = IF pcv = "done" THEN 0 ELSE sv]
    /\ td' = [td EXCEPT ![c] = tv]
    /\ cdata' = [cdata EXCEPT ![c] = dv]
    /\ heap' = Collect(B.heap, B.sessions, pc', sess', td')
    /\ sessions' = B.sessions
    /\ subs' = B.subs
    /\ retained' = B.retained
    /\ lru' = B.lru
    /\ sock' = B.sock
    /\ route' = IF keep /\ B.route.called
                THEN [called |-> TRUE, topic |-> B.route.topic, qos |-> B.route.qos,
                      sender_id |-> B.route.sender_id, granted |-> B.route.granted,
                      copies |-> B.route.copies, before |-> heap]
                ELSE NoRoute
    /\ connack' = B.connack
    /\ willPub' = B.willPub
    /\ willLate' = B.willLate
    /\ bye' = B.bye
    /\ discSent' = B.discSent
    /\ config' = config
    /\ first' = [k \in Conns |->
                    IF first[k] # "none" THEN first[k]
                    ELSE IF B.connack.sent /\ B.connack.conn = k THEN "CONNACK"
                    ELSE IF /\ B.route.called
                            /\ \E cp \in B.route.copies :
                                  /\ cp.how = "sent"
                                  /\ heap[cp.obj].writer = k
                                  /\ sock[k] = "open"
                         THEN "PUBLISH"
                         ELSE "none"]

Commit(after, c, pcv, sv, tv, dv) == CommitKeep(after, c, pcv, sv, tv, dv, FALSE)

\* The broker as built with the configuration cfg: no connection yet.
Boot(cfg) ==
    /\ heap = [o \in Objs |-> NoSession]
    /\ sessions = [c \in Clients |-> 0]
    /\ subs = EmptyTree
    /\ retained = EmptyRetained
    /\ lru = <<>>
    /\ sock = [c \in Conns |-> "new"]
    /\ pc = [c \in Tasks |-> IF c = KA THEN "sleep" ELSE "new"]
    /\ sess = [c \in Tasks |-> 0]
    /\ td = [c \in Tasks |-> NoTd]
    /\ cdata = [c \in Tasks |-> NoData]
    /\ npackets = 0
    /\ route = NoRoute
    /\ connack = NoConnack
    /\ willPub = [c \in Conns |-> 0]
    /\ willLate = [c \in Conns |-> FALSE]
    /\ bye = [c \in Conns |-> <<>>]
    /\ discSent = [c \in Conns |-> FALSE]
    /\ inb = [c \in Conns |-> [p \in Pids |-> NoInb]]
    /\ displaced = [c \in Conns |-> FALSE]
    /\ last = NoCall
    /\ config = cfg
    /\ first = [c \in Conns |-> "none"]

Init == Boot(DefaultConfig)

\* ------------------------------------------------------------ _fire_hook
fire_hook_propagate(answer) == [value |-> "none", raised |-> answer = "raise"]

\* MQTTBroker._fire_hook on a hook that answers "none" (no hook, or None),
\* "false", or "raise": [value: what the caller gets, raised: an exception
\* leaves _fire_hook].  The except clause turns an exception into None.
fire_hook(answer) ==
    [value |-> IF answer = "raise" THEN "none" ELSE answer, raised |-> FALSE]

\* What a registered hook of the broker B answers when it may answer hook.
hook_answer(B, hook) == IF B.config.hooks = "raise" THEN "raise" ELSE hook

\* ------------------------------------------------- _handle_disconnect
\* writer.close() of the session's writer.
close_writer(B, o) ==
    IF B.heap[o].writer = 0 THEN B
    ELSE [B EXCEPT !.sock[B.heap[o].writer] = "closed"]

\* Lines 881-885: a clean session leaves the tree and the table (whatever
\* the table holds under that client id).
\* _fire_hook(self._on_disconnect, client_id, graceful): a registered hook
\* is called; w is the connection that the session wrote to.
fire_on_disconnect(B, w, graceful) ==
    IF B.config.on_disconnect = "none" \/ w = 0 THEN B
    ELSE [B EXCEPT !.bye[w] = Append(@, graceful)]

td_finish(B, o) ==
    fire_on_disconnect(
        IF B.heap[o].clean_session
        THEN [B EXCEPT !.subs = unsubscribe_all(B.subs, B.heap[o].client_id),
                       !.sessions[B.heap[o].client_id] = 0]
        ELSE B,
        B.heap[o].writer, FALSE)

\* Lines 866-875: mark disconnected, close the writer.  wait_closed()
\* suspends when this call closed an open socket.
td_mark(B, o) ==
    LET was_open == B.heap[o].writer # 0 /\ B.sock[B.heap[o].writer] = "open"
        B1 == close_writer([B EXCEPT !.heap[o].connected = FALSE], o)
    IN IF was_open THEN [B |-> B1, next |-> "td_close"]
       ELSE [B |-> td_finish(B1, o), next |-> "finished"]

\* Lines 863-864, reached from inside the will branch.
td_clear_will(B, o) == [B EXCEPT !.heap[o].will = NoWill]

\* Lines 852-875, from the hook's answer to the next suspension.  The
\* fan-out of the will suspends in the drain of a send when it wrote to a
\* subscriber.
td_publish_will(B, o, suppress) ==
    LET w == B.heap[o].will IN
    IF suppress
    THEN td_mark(td_clear_will(B, o), o)
    ELSE LET B1 == route_publish(B, w.topic, w.payload, w.qos, w.retain,
                                 B.heap[o].client_id)
             B2 == [B1 EXCEPT !.willPub[w.owner] = @ + 1,
                              !.willLate[w.owner] = @ \/ B.discSent[w.owner]]
         IN IF \E k \in B2.route.copies : k.how = "sent"
            THEN [B |-> B2, next |-> "td_will"]
            ELSE td_mark(td_clear_will(B2, o), o)

\* Lines 843-875 up to the first suspension.  hook is what the
\* on_will_publish hook answers: "none" (no hook, or one that returns None)
\* or "false".
td_start(B, o, graceful, hook) ==
    IF (~graceful) /\ B.heap[o].will.set
    THEN IF fire_hook(hook_answer(B, hook)).raised
         THEN [B |-> B, next |-> "finished"]
         ELSE td_publish_will(B, o, fire_hook(hook_answer(B, hook)).value = "false")
    ELSE td_mark(B, o)

\* The call resumes after a suspension.
td_resume(B, o, at) ==
    IF at = "td_will" THEN td_mark(td_clear_will(B, o), o)
    ELSE [B |-> td_finish(B, o), next |-> "finished"]

\* ---------------------------------------------------- _process_connect
WillOf(c) ==
    [set |-> TRUE, topic |-> <<"t">>, payload |-> "x", qos |-> 2, retain |-> FALSE,
     owner |-> c]

\* The client ids that connection c may present (the first one is "a").
ClientsOf(c) == IF c = 1 THEN {"a"} ELSE Clients

\* What the on_connect hook may answer: TRUE is "did not return False".
HookAccepts == {TRUE}

\* What the on_will_publish hook may be.
WillHooks == {"none", "false"}

KeepAlives == {60}

ConnectData(c) ==
    [client_id : ClientsOf(c), clean_session : BOOLEAN, has_will : BOOLEAN,
     keep_alive : KeepAlives]

\* Lines 495-504: session_present.
session_present(B, d) == (~d.clean_session) /\ B.sessions[d.client_id] # 0

\* Lines 494-532, from the session resolution to the store in the table,
\* for the connection c whose CONNECT is d.  A fresh session is the heap
\* object c.  ack is what the CONNACK will say, with the table entry found
\* (stored) and the session as it starts.
install(B, c, d) ==
    LET present == session_present(B, d)
        stored == B.sessions[d.client_id]
        o == IF present THEN stored ELSE c
        s0 == IF present THEN B.heap[o] ELSE ClientSession(d.client_id, d.clean_session)
        s1 == [s0 EXCEPT !.writer = c, !.connected = TRUE, !.keep_alive = d.keep_alive,
                         !.will = IF d.has_will THEN WillOf(c) ELSE @]
    IN [B |-> [B EXCEPT !.heap[o] = s1, !.sessions[d.client_id] = o],
        obj |-> o,
        ack |-> [sent |-> TRUE, conn |-> c, code |-> 0,
                 session_present |-> present,
                 clean_session |-> d.clean_session, obj |-> o, stored |-> stored,
                 stored_clean |-> IF stored = 0 THEN FALSE
                                  ELSE B.heap[stored].clean_session,
                 stored_session |-> IF stored = 0 THEN NoSession ELSE B.heap[stored],
                 start |-> s0, delivered |-> <<>>]]

\* Lines 535-559, from the answer of the on_connect hook to the return:
\* accept is the hook not returning False.  lost: the drain of the CONNACK
\* raises (the socket of c was closed while the hook ran, or the peer has
\* reset the connection); when it does not raise on a closed socket, the
\* CONNACK goes nowhere and the code carries on.
connect_finish(B, c, o, ack, accept, lost) ==
    LET open == B.sock[c] = "open"
        result == fire_hook(hook_answer(B, IF accept THEN "none" ELSE "false"))
    IN
    IF result.raised
    THEN [B |-> B, obj |-> 0, next |-> "done"]
    ELSE IF result.value = "false"
    THEN [B |-> [B EXCEPT !.heap[o].will = NoWill,
                          !.heap[o].connected = FALSE,
                          !.sock[c] = "closed",
                          !.sessions[B.heap[o].client_id] = 0,
                          !.connack = IF open
                                      THEN [ack EXCEPT !.code = 5,
                                                       !.session_present = FALSE]
                                      ELSE NoConnack],
          obj |-> 0, next |-> "done"]
    ELSE IF lost
    THEN [B |-> B, obj |-> 0, next |-> "done"]
    ELSE LET dq == IF ack.session_present /\ ~ack.clean_session
                   THEN deliver_queued(B.heap[o], open)
                   ELSE [s |-> B.heap[o], pkts |-> <<>>]
         IN [B |-> [B EXCEPT !.heap[o] = dq.s,
                             !.connack = IF open
                                         THEN [ack EXCEPT !.delivered = dq.pkts]
                                         ELSE NoConnack],
             obj |-> o, next |-> "loop"]

\* The rest of _process_connect and the entry into the main loop; an
\* awaitable on_connect hook suspends the task between the two.
ConnectTail(B, c, d, accept) ==
    \E r \in {install(B, c, d)} :
    IF B.config.on_connect = "awaitable"
    THEN Commit(r.B, c, "connect_hook", r.obj, NoTd, r.ack)
    ELSE \E f \in {connect_finish(r.B, c, r.obj, r.ack, accept, FALSE)} :
         Commit(f.B, c, f.next, f.obj, NoTd, NoData)

\* _handle_client lines 290-316: the connection is accepted, or closed at
\* once when the table is full.
Accept(c) ==
    /\ pc[c] = "new"
    /\ \A b \in Conns : b < c => pc[b] # "new"
    /\ IF Cardinality({k \in Clients : sessions[k] # 0}) >= config.max_clients
       THEN Commit([Broker EXCEPT !.sock[c] = "closed"], c, "done", 0, NoTd, NoData)
       ELSE Commit([Broker EXCEPT !.sock[c] = "open"], c, "wait_connect", 0, NoTd, NoData)
    /\ UNCHANGED <<npackets, inb, displaced, last>>

\* A CONNECT that passes the checks (lines 487-559): the connected session
\* of the same client id is torn down first.  accepts is what the
\* on_connect hook may answer.
ConnectFrom(c, accepts) ==
    /\ pc[c] = "wait_connect"
    /\ running
    /\ \E d \in ConnectData(c), hook \in WillHooks, accept \in accepts :
          LET old == sessions[d.client_id]
              duplicate == old # 0 /\ heap[old].connected
          IN /\ IF duplicate
                THEN \E r \in {td_start(Broker, old, FALSE, hook)} :
                     /\ (hook # "none" => heap[old].will.set)
                     /\ IF r.next = "finished"
                        THEN ConnectTail(r.B, c, d, accept)
                        ELSE Commit(r.B, c, r.next, 0,
                                    [obj |-> old,
                                     cont |-> IF accept THEN "connect"
                                              ELSE "connect_refuse"], d)
                ELSE /\ hook = "none"
                     /\ ConnectTail(Broker, c, d, accept)
             /\ displaced' = [displaced EXCEPT ![c] = duplicate]
    /\ UNCHANGED <<npackets, inb>>

Connect(c) == ConnectFrom(c, HookAccepts) /\ UNCHANGED last

\* A CONNECT of a client id without a connected session, whose peer resets
\* the connection before the CONNACK is written: _send_connack raises out
\* of _process_connect (line 552), _handle_client has not yet assigned its
\* local session (line 344) and its finally clause (417-419) skips the
\* teardown.
ConnectLost(c) ==
    /\ pc[c] = "wait_connect"
    /\ running
    /\ config.on_connect # "awaitable"
    /\ \E d \in ConnectData(c) :
          /\ ~(sessions[d.client_id] # 0 /\ heap[sessions[d.client_id]].connected)
          /\ \E r \in {install(Broker, c, d)} :
             \E f \in {connect_finish(r.B, c, r.obj, r.ack, TRUE, TRUE)} :
                Commit(f.B, c, f.next, f.obj, NoTd, NoData)
    /\ UNCHANGED <<npackets, inb, displaced, last>>

\* A CONNECT of a client id without a connected session, up to the await
\* of writer.drain() in _send_connack (lines 561-565): the session is
\* installed as connected, no hook is registered, the CONNACK is written
\* straight to the writer, without the write lock of the session.
ConnectDrain(c) ==
    /\ pc[c] = "wait_connect"
    /\ running
    /\ config.on_connect # "awaitable"
    /\ \E d \in ConnectData(c) :
          /\ ~(sessions[d.client_id] # 0 /\ heap[sessions[d.client_id]].connected)
          /\ \E r \in {install(Broker, c, d)} :
                Commit([r.B EXCEPT !.connack = r.ack], c, "connack_drain", r.obj, NoTd,
                       r.ack)
    /\ UNCHANGED <<npackets, inb, displaced, last>>

\* The drain of the CONNACK returns: lines 553-559.
ConnackDrained(c) ==
    /\ pc[c] = "connack_drain"
    /\ LET o == sess[c]
           ack == cdata[c]
           s == IF ack.session_present /\ ~ack.clean_session
                THEN deliver_queued(heap[o], sock[c] = "open").s
                ELSE heap[o]
       IN Commit([Broker EXCEPT !.heap[o] = s], c, "loop", o, NoTd, NoData)
    /\ UNCHANGED <<npackets, inb, displaced, last>>

\* The finally clause of _handle_client (lines 417-419), entered when the
\* read fails (EOF, reset, idle timeout) or a second CONNECT arrives.
ConnBreakFrom(c, keep) ==
    /\ pc[c] = "loop"
    /\ \E hook \in WillHooks :
          \E r \in {td_start(Broker, sess[c], FALSE, hook)} :
          /\ (hook # "none" => heap[sess[c]].will.set)
          /\ IF r.next = "finished"
             THEN Commit(r.B, c, "done", 0, NoTd, NoData)
             ELSE Commit(r.B, c, r.next, sess[c], [obj |-> sess[c], cont |-> "done"], NoData)
    /\ last' = IF keep
               THEN [op |-> "break", conn |-> c, obj |-> sess[c], before |-> heap,
                     next |-> pc'[c]]
               ELSE last
    /\ UNCHANGED <<npackets, inb, displaced>>

ConnBreak(c) == ConnBreakFrom(c, FALSE)

\* _keep_alive_monitor (lines 1041-1052) finds a connected session whose
\* keep-alive has expired and tears it down.
KeepAliveSweep ==
    /\ pc[KA] = "sleep"
    /\ \E k \in Clients, hook \in WillHooks :
          LET o == sessions[k] IN
          /\ o # 0
          /\ heap[o].connected
          /\ heap[o].keep_alive > 0
          /\ (hook # "none" => heap[o].will.set)
          /\ \E r \in {td_start(Broker, o, FALSE, hook)} :
             IF r.next = "finished"
             THEN Commit(r.B, KA, "sleep", 0, NoTd, NoData)
             ELSE Commit(r.B, KA, r.next, 0, [obj |-> o, cont |-> "sweep"], NoData)
    /\ UNCHANGED <<npackets, inb, displaced, last>>

\* MQTTBroker.disconnect_client(k, graceful) (lines 931-946) called by the
\* application, up to the first suspension of _handle_disconnect; it
\* returns True when the session was found connected.
DisconnectClient(k, graceful) ==
    /\ pc[Admin] \in {"new", "done"}
    /\ LET o == sessions[k] IN
       /\ o # 0
       /\ heap[o].connected
       /\ \E hook \in WillHooks :
             /\ (hook # "none" => (~graceful) /\ heap[o].will.set)
             /\ \E r \in {td_start(Broker, o, graceful, hook)} :
                IF r.next = "finished"
                THEN Commit(r.B, Admin, "done", 0, NoTd, NoData)
                ELSE Commit(r.B, Admin, r.next, 0, [obj |-> o, cont |-> "admin"], NoData)
       /\ last' = [op |-> "disconnect_client", client_id |-> k, graceful |-> graceful,
                   conn |-> heap[o].writer, before |-> heap, published |-> willPub]
    /\ UNCHANGED <<npackets, inb, displaced>>

\* ClientSession.is_keep_alive_expired (session.py 129-155) when elapsed_ms
\* have passed since last_activity; factor is in tenths.
is_keep_alive_expired_always(s, elapsed_ms, factor) == TRUE

is_keep_alive_expired(s, elapsed_ms, factor) ==
    IF s.keep_alive = 0 THEN FALSE
    ELSE elapsed_ms * 10 > s.keep_alive * factor * 1000

\* One turn of the loop of _keep_alive_monitor (lines 1046-1052), for the
\* client id k, when elapsed_ms have passed since the last activity of its
\* session.
KeepAliveCheck(k, elapsed_ms) ==
    /\ pc[KA] = "sleep"
    /\ LET o == sessions[k] IN
       /\ IF /\ o # 0
             /\ heap[o].connected
             /\ heap[o].keep_alive > 0
             /\ is_keep_alive_expired(heap[o], elapsed_ms, config.keep_alive_factor)
          THEN \E r \in {td_start(Broker, o, FALSE, "none")} :
               IF r.next = "finished"
               THEN Commit(r.B, KA, "sleep", 0, NoTd, NoData)
               ELSE Commit(r.B, KA, r.next, 0, [obj |-> o, cont |-> "sweep"], NoData)
          ELSE Commit(Broker, KA, "sleep", 0, NoTd, NoData)
       /\ last' = [op |-> "keep_alive", client_id |-> k, obj |-> o,
                   elapsed_ms |-> elapsed_ms, before |-> heap, published |-> willPub,
                   sock |-> sock]
    /\ UNCHANGED <<npackets, inb, displaced>>

\* A suspended _handle_disconnect call goes on.
TdResume(c) ==
    /\ pc[c] \in {"td_will", "td_close"}
    /\ \E r \in {td_resume(Broker, td[c].obj, pc[c])} :
       IF r.next # "finished"
       THEN Commit(r.B, c, r.next, sess[c], td[c], cdata[c])
       ELSE IF td[c].cont = "connect"
            THEN \E accept \in HookAccepts : ConnectTail(r.B, c, cdata[c], accept)
            ELSE IF td[c].cont = "connect_refuse"
            THEN ConnectTail(r.B, c, cdata[c], FALSE)
            ELSE IF td[c].cont = "sweep"
                 THEN Commit(r.B, c, "sleep", 0, NoTd, NoData)
                 ELSE IF td[c].cont = "shutdown"
                 THEN Commit(r.B, c, "shut_loop", 0, NoTd, cdata[c])
                 ELSE Commit(r.B, c, "done", 0, NoTd, NoData)
    /\ UNCHANGED <<npackets, inb, displaced, last>>

\* The awaitable on_connect hook returns.
ConnectHookReturn(c) ==
    /\ pc[c] = "connect_hook"
    /\ \E accept \in HookAccepts, lost \in BOOLEAN :
          /\ (lost => sock[c] # "open")
          /\ \E f \in {connect_finish(Broker, c, sess[c], cdata[c], accept, lost)} :
                Commit(f.B, c, f.next, f.obj, NoTd, NoData)
    /\ UNCHANGED <<npackets, inb, displaced, last>>

\* ------------------------------------------------------ retained delivery
\* TopicTree.get_retained_matching, as a test of one retained topic against
\* the filter from level i on.
RECURSIVE retained_matches(_, _, _)
retained_matches(filter, topic, i) ==
    IF i = Len(filter) THEN Len(topic) = i
    ELSE IF filter[i + 1] = "#"
         THEN ~(i = 0 /\ starts_with_dollar(topic[1]))
         ELSE IF Len(topic) <= i THEN FALSE
              ELSE IF filter[i + 1] = "+"
                   THEN (~(i = 0 /\ starts_with_dollar(topic[1])))
                          /\ retained_matches(filter, topic, i + 1)
                   ELSE filter[i + 1] = topic[i + 1]
                          /\ retained_matches(filter, topic, i + 1)

RECURSIVE SetToSeq(_)
SetToSeq(S) ==
    IF S = {} THEN <<>>
    ELSE LET x == CHOOSE y \in S : TRUE IN <<x>> \o SetToSeq(S \ {x})

\* TopicTree.get_retained_matching: the topics whose retained message the
\* filter collects.
get_retained_matching(ret, filter) ==
    {tp \in DOMAIN ret : ret[tp].set /\ retained_matches(filter, tp, 0)}

\* MessageRouter.deliver_retained: every matching retained message is sent
\* at min(its QoS, granted QoS); QoS 1/2 get a packet id and are tracked.
deliver_retained(s, open, ret, filter, granted_qos) ==
    LET found == SetToSeq(get_retained_matching(ret, filter))
        msgs == [k \in 1..Len(found) |->
                    [topic |-> found[k], payload |-> ret[found[k]].payload,
                     qos |-> Min(ret[found[k]].qos, granted_qos)]]
    IN deliver_messages(s, open, msgs)

\* ------------------------------------------------------- steady state
max_subscriptions_per_client == 2

\* What the clients of this model send.
SubFilters == {<<"t">>}
SubQoS == {1, 2}
ClientPids == {1}
AckPids == 1..MaxPid
Retains == {FALSE}

\* The connection task of c is suspended in the read of its main loop and
\* the next packet of the client arrives.
Reading(c) ==
    /\ pc[c] = "loop"
    /\ running
    /\ sock[c] = "open"
    /\ heap[sess[c]].connected
    /\ npackets < MaxPackets

\* The socket of the session object o takes a write.
Open(B, o) == B.heap[o].writer # 0 /\ B.sock[B.heap[o].writer] = "open"

\* session.send of an acknowledgement on the session object o.
send_ack(B, o) == [B EXCEPT !.heap[o] = send(B.heap[o], Open(B, o))]

\* The handler returns and the task reads again.
Handled(B, c) == Commit(B, c, "loop", sess[c], NoTd, NoData)

\* An exception leaves the handler of task c: the except clauses of
\* _handle_client log it and the finally clause (lines 411-419) tears the
\* session down.
Unwind(B, c, hook, keep) ==
    \E r \in {td_start(B, sess[c], FALSE, hook)} :
    /\ (hook # "none" => B.heap[sess[c]].will.set)
    /\ IF r.next = "finished"
       THEN CommitKeep(r.B, c, "done", 0, NoTd, NoData, keep)
       ELSE CommitKeep(r.B, c, r.next, sess[c], [obj |-> sess[c], cont |-> "done"],
                       NoData, keep)

\* len(payload)
PayloadLen(payload) == IF payload = "" THEN 0 ELSE IF payload = "x" THEN 1 ELSE 2

\* packet.parse_publish raises MQTTProtocolError (packet.py 300-316), or
\* validate_topic_name raises ValueError (utils.py 109-114).
malformed_publish(p) ==
    \/ p.topic = <<>>
    \/ \E k \in 1..Len(p.topic) : p.topic[k] \in {"+", "#"}
    \/ (p.qos > 0 /\ p.pid = 0)

\* What one interceptor of kind k leaves in the MessageContext ctx: it
\* passes, calls ctx.drop(), raises, or sets one field.
intercept_nothing(k, ctx) == ctx

intercept(k, ctx) ==
    IF k = "set_payload" THEN [ctx EXCEPT !.payload = "x"]
    ELSE IF k = "grow_payload" THEN [ctx EXCEPT !.payload = "xx"]
    ELSE IF k = "set_retain" THEN [ctx EXCEPT !.retain = TRUE]
    ELSE IF k = "set_qos" THEN [ctx EXCEPT !.qos = 0]
    ELSE IF k = "raise_qos" THEN [ctx EXCEPT !.qos = 1]
    ELSE IF k = "redirect" THEN [ctx EXCEPT !.topic = <<"u">>, !.retain = FALSE]
    ELSE ctx

\* The interceptor pipeline (lines 622-638) from the i-th interceptor on:
\* [ctx: the context afterwards, dropped: ctx._dropped, ran: the
\* interceptors that were called, in order].  An exception of an
\* interceptor is logged and the loop goes on.
RECURSIVE run_interceptors(_, _, _, _)
run_interceptors(interceptors, i, ctx, ran) ==
    IF i > Len(interceptors)
    THEN [ctx |-> ctx, dropped |-> FALSE, ran |-> ran]
    ELSE IF interceptors[i] = "drop"
         THEN [ctx |-> ctx, dropped |-> TRUE, ran |-> Append(ran, i)]
         ELSE run_interceptors(interceptors, i + 1, intercept(interceptors[i], ctx),
                               Append(ran, i))

\* _process_publish (lines 567-675) for the PUBLISH p on the session object
\* o; authorized is the answer of auth.authorize_publish.  [B: the broker
\* afterwards, ack: the acknowledgement written, outcome: the branch taken,
\* ctx: the message after the interceptors, ran: the interceptors called,
\* fired: the on_publish hook was called].
process_publish(B, o, p, authorized) ==
    LET cid == B.heap[o].client_id
        ack == IF p.qos = 1 THEN "PUBACK" ELSE IF p.qos = 2 THEN "PUBREC" ELSE "none"
        early(B1, a, outcome) ==
            [B |-> B1, ack |-> a, outcome |-> outcome, ctx |-> p, ran |-> <<>>,
             fired |-> FALSE]
        pipe == run_interceptors(B.config.interceptors, 1, p, <<>>)
        q == pipe.ctx
        qack == IF q.qos = 1 THEN "PUBACK" ELSE IF q.qos = 2 THEN "PUBREC" ELSE "none"
        late(B1, a, outcome, fired) ==
            [B |-> B1, ack |-> a, outcome |-> outcome, ctx |-> q, ran |-> pipe.ran,
             fired |-> fired]
    IN IF malformed_publish(p)
       THEN early(B, "none", "malformed")
       ELSE IF PayloadLen(p.payload) > B.config.max_payload_size
       THEN early(B, "none", "too_large")
       ELSE IF p.qos = 2 /\ ~B.config.qos2_enabled
       THEN early(send_ack(B, o), "PUBREC", "qos2_disabled")
       ELSE IF B.config.authorize_publish /\ ~authorized
       THEN early(IF p.qos > 0 THEN send_ack(B, o) ELSE B, ack, "denied")
       ELSE IF pipe.dropped
       THEN late(B, "none", "dropped", FALSE)
       ELSE IF fire_hook(hook_answer(B, "none")).raised
       THEN late(B, "none", "raised", TRUE)
       ELSE IF q.qos = 2
       THEN late(send_ack([B EXCEPT !.heap[o] =
                             track_inbound_qos2(B.heap[o], q.pid, q.topic, q.payload,
                                                q.retain)], o),
                 "PUBREC", "tracked", TRUE)
       ELSE LET B1 == route_publish(B, q.topic, q.payload, q.qos, q.retain, cid)
            IN IF B1.route.raised \/ (q.qos = 1 /\ p.qos = 0)
               THEN late(B1, "none", "raised", TRUE)
               ELSE late(IF q.qos = 1 THEN send_ack(B1, o) ELSE B1, qack, "routed", TRUE)

\* What a client may put in a PUBLISH.
MalformedTopics == {<<>>, <<"+">>, <<"#">>}
PublishTopics == Topics \cup MalformedTopics
PublishPayloads == Payloads \cup {"xx"}
PublishPids == {0} \cup ClientPids

\* A PUBLISH arrives on c with the retain flag in retains.  keep: route and
\* last keep what the handler did.
PublishFrom(c, retains, keep) ==
    /\ Reading(c)
    /\ \E topic \in PublishTopics, payload \in PublishPayloads, qos \in QoS,
          retain \in retains, pid \in PublishPids, authorized \in BOOLEAN,
          hook \in WillHooks :
          LET o == sess[c]
              p == [topic |-> topic, payload |-> payload, qos |-> qos,
                    retain |-> retain, pid |-> pid]
          IN /\ (qos = 0 => pid = 1)
             /\ (config.authorize_publish \/ authorized)
             /\ \E r \in {process_publish(Broker, o, p, authorized)} :
                   /\ IF r.outcome = "raised"
                      THEN Unwind(r.B, c, hook, keep)
                      ELSE /\ hook = "none"
                           /\ CommitKeep(r.B, c, "loop", sess[c], NoTd, NoData, keep)
                   /\ inb' = IF r.outcome = "tracked"
                             THEN [inb EXCEPT ![c][pid] = NoInb]
                             ELSE IF r.ack = "PUBREC"
                             THEN [inb EXCEPT ![c][pid] =
                                      [NoInb EXCEPT !.refused = TRUE]]
                             ELSE inb
                   /\ last' = IF keep
                              THEN [op |-> "publish", conn |-> c, pkt |-> p,
                                    malformed |-> malformed_publish(p),
                                    authorized |-> authorized, ack |-> r.ack,
                                    outcome |-> r.outcome, ctx |-> r.ctx,
                                    ran |-> r.ran, fired |-> r.fired,
                                    routed |-> IF r.B.route.called
                                               THEN [called |-> TRUE,
                                                     topic |-> r.B.route.topic,
                                                     payload |-> r.B.route.payload,
                                                     qos |-> r.B.route.qos,
                                                     retain |-> r.B.route.retain]
                                               ELSE NoRoute,
                                    before |-> heap,
                                    retained |-> retained, next |-> pc'[c]]
                              ELSE last
    /\ npackets' = npackets + 1
    /\ UNCHANGED displaced

\* _process_publish as a step of the connection task of c.
Publish(c) == PublishFrom(c, Retains, FALSE)

\* packet.parse_subscribe / parse_unsubscribe raise MQTTProtocolError
\* (packet.py 351-352, 376-377, 405-406, 419-420): packet id 0, or no filter.
malformed_subscribe(p) == p.pid = 0 \/ p.filters = <<>>

\* What a client may put in a SUBSCRIBE or an UNSUBSCRIBE: the filters it
\* names (one at most) and the packet id.
SubscribePkts(filters) ==
    [pid : PublishPids, filters : {<<>>} \cup {<<f>> : f \in filters}]

\* _process_subscribe (lines 677-760) for one filter, no auth, no hook.  A
\* packet that does not parse is logged and the handler returns (685-689).
\* keep: last keeps the call.
SubscribeFrom(c, keep) ==
    /\ Reading(c)
    /\ \E p \in SubscribePkts(SubFilters), requested_qos \in SubQoS :
          LET o == sess[c]
              s == heap[o]
              filter == p.filters[1]
              full == Cardinality({f \in Filters : s.subscriptions[f] # NoSub})
                         >= max_subscriptions_per_client
              granted_qos == IF (~config.qos2_enabled) /\ requested_qos > 1 THEN 1
                             ELSE requested_qos
              s1 == [s EXCEPT !.subscriptions[filter] = granted_qos]
              s2 == deliver_retained(s1, Open(Broker, o), retained, filter, granted_qos)
          IN /\ IF malformed_subscribe(p)
                THEN requested_qos = 1 /\ Handled(Broker, c)
                ELSE IF full
                THEN Handled(send_ack(Broker, o), c)
                ELSE IF fire_hook(hook_answer(Broker, "none")).raised
                THEN Unwind(Broker, c, "none", keep)
                ELSE Handled(send_ack(
                        [Broker EXCEPT !.subs = subscribe(subs, filter, s.client_id,
                                                          granted_qos),
                                       !.heap[o] = s2], o), c)
             /\ last' = IF keep
                        THEN [op |-> "subscribe", conn |-> c, pkt |-> p,
                              malformed |-> malformed_subscribe(p), before |-> heap,
                              next |-> pc'[c]]
                        ELSE last
    /\ npackets' = npackets + 1
    /\ UNCHANGED <<inb, displaced>>

Subscribe(c) == SubscribeFrom(c, FALSE)

\* _process_unsubscribe (lines 762-792) for one filter.  A packet that does
\* not parse is logged and the handler returns (770-774).
UnsubscribeFrom(c, keep) ==
    /\ Reading(c)
    /\ \E p \in SubscribePkts(SubFilters) :
          LET o == sess[c]
              filter == p.filters[1]
              B1 == [Broker EXCEPT !.subs = unsubscribe(subs, filter, heap[o].client_id),
                                   !.heap[o].subscriptions[filter] = NoSub]
          IN /\ IF malformed_subscribe(p)
                THEN Handled(Broker, c)
                ELSE /\ heap[o].subscriptions[filter] # NoSub
                     /\ IF fire_hook(hook_answer(Broker, "none")).raised
                        THEN Unwind(B1, c, "none", keep)
                        ELSE Handled(send_ack(B1, o), c)
             /\ last' = IF keep
                        THEN [op |-> "unsubscribe", conn |-> c, pkt |-> p,
                              malformed |-> malformed_subscribe(p), before |-> heap,
                              next |-> pc'[c]]
                        ELSE last
    /\ npackets' = npackets + 1
    /\ UNCHANGED <<inb, displaced>>

Unsubscribe(c) == UnsubscribeFrom(c, FALSE)

\* _process_puback (lines 807-810)
Puback(c) ==
    /\ Reading(c)
    /\ \E pid \in AckPids :
          LET o == sess[c]
              r == handle_puback(heap[o], pid)
          IN /\ r.s # heap[o]
             /\ Handled([Broker EXCEPT !.heap[o] = r.s], c)
    /\ npackets' = npackets + 1
    /\ UNCHANGED <<inb, displaced, last>>

\* _process_pubrec (lines 812-817)
Pubrec(c) ==
    /\ Reading(c)
    /\ \E pid \in AckPids :
          LET o == sess[c]
              r == handle_pubrec(heap[o], pid)
              B1 == [Broker EXCEPT !.heap[o] = r.s]
          IN /\ r.s # heap[o]
             /\ Handled(IF r.ret THEN send_ack(B1, o) ELSE B1, c)
    /\ npackets' = npackets + 1
    /\ UNCHANGED <<inb, displaced, last>>

\* _process_pubrel (lines 819-827).  inb counts the route_publish calls
\* made for the inbound message and notes the PUBCOMP.
Pubrel(c) ==
    /\ Reading(c)
    /\ \E pid \in AckPids :
          LET o == sess[c]
              r == handle_pubrel(heap[o], pid)
              B1 == [Broker EXCEPT !.heap[o] = r.s]
              B2 == IF r.found
                    THEN route_publish(B1, r.topic, r.payload, 2, r.retain,
                                       heap[o].client_id)
                    ELSE B1
              raised == r.found /\ B2.route.raised
          IN /\ pid \in ClientPids
             /\ IF raised
                THEN \E hook \in WillHooks : Unwind(B2, c, hook, FALSE)
                ELSE Handled(send_ack(B2, o), c)
             /\ inb' = [inb EXCEPT ![c][pid] =
                          [routed |-> IF r.found THEN Min(@.routed + 1, 2) ELSE @.routed,
                           pubcomp |-> ~raised, refused |-> @.refused,
                           released |-> TRUE]]
    /\ npackets' = npackets + 1
    /\ UNCHANGED <<displaced, last>>

\* _process_pubcomp (lines 829-832)
Pubcomp(c) ==
    /\ Reading(c)
    /\ \E pid \in AckPids :
          LET o == sess[c]
              r == handle_pubcomp(heap[o], pid)
          IN /\ r.s # heap[o]
             /\ Handled([Broker EXCEPT !.heap[o] = r.s], c)
    /\ npackets' = npackets + 1
    /\ UNCHANGED <<inb, displaced, last>>

\* DISCONNECT: _process_disconnect (lines 794-805), the break, and the
\* finally clause up to its first suspension.
Disconnect(c) ==
    /\ Reading(c)
    /\ LET o == sess[c]
           B1 == fire_on_disconnect(
                     [Broker EXCEPT !.heap[o].will = NoWill,
                                    !.heap[o].connected = FALSE,
                                    !.discSent[c] = TRUE],
                     c, TRUE)
           r == td_start(B1, o, FALSE, "none")
       IN IF r.next = "finished"
          THEN Commit(r.B, c, "done", 0, NoTd, NoData)
          ELSE Commit(r.B, c, r.next, o, [obj |-> o, cont |-> "done"], NoData)
    /\ npackets' = npackets + 1
    /\ UNCHANGED <<inb, displaced, last>>

\* _retransmit_task (lines 1054-1060) calls retransmit_pending for the
\* connected session o of the table; the call runs to its first await, in
\* session.send (session.py 94-114): the task takes the write lock of the
\* session, writes, and is suspended in the drain; it waits while another
\* task holds the lock.  A task that an exception has left is "dead".
RetransmitStep(r, o) ==
    /\ IF r.kind = "send"
       THEN /\ r.s.write_lock = 0
            /\ Commit([Broker EXCEPT !.heap[o] =
                          [send(r.s, Open(Broker, o)) EXCEPT !.write_lock = Retx]],
                      Retx, "retx_send", 0, [obj |-> o, cont |-> "retx"], r.f)
       ELSE Commit([Broker EXCEPT !.heap[o] = r.s], Retx,
                   IF r.kind = "raise" THEN "dead" ELSE "sleep", 0, NoTd, NoData)
    /\ last' = IF r.kind = "send"
               THEN [op |-> "retransmit", obj |-> o, table |-> r.f.table,
                     pid |-> r.f.pid, before |-> heap]
               ELSE last
    /\ UNCHANGED <<npackets, inb, displaced>>

RetransmitBegin(o) ==
    /\ pc[Retx] \in {"new", "sleep"}
    /\ \E k \in Clients : sessions[k] = o
    /\ heap[o].connected
    /\ \E r \in {retransmit_pending(heap[o], config.qos_max_retries)} :
          RetransmitStep(r, o)

\* session.send returns to retransmit_pending.
RetransmitResume ==
    /\ pc[Retx] = "retx_send"
    /\ \E detects \in BOOLEAN :
       \E r \in {retransmit_resume([heap[td[Retx].obj] EXCEPT !.write_lock = 0],
                                   cdata[Retx], config.qos_max_retries, detects)} :
          RetransmitStep(r, td[Retx].obj)

\* qos_retry_interval passes while the retransmit task sleeps (line 1057).
Elapse ==
    /\ pc[Retx] \in {"new", "sleep"}
    /\ LET old(tbl) == [x \in DOMAIN tbl |-> [tbl[x] EXCEPT !.timestamp = -1]]
       IN Commit([Broker EXCEPT !.heap =
                     [o \in Objs |->
                         IF heap[o] = NoSession THEN NoSession
                         ELSE [heap[o] EXCEPT !.pending_qos1 = old(@),
                                              !.pending_qos2_out = old(@)]]],
                 Retx, "sleep", 0, NoTd, NoData)
    /\ UNCHANGED <<npackets, inb, displaced, last>>

Next ==
    \/ KeepAliveSweep
    \/ \E c \in Tasks : TdResume(c)
    \/ \E c \in Conns :
        \/ Accept(c)
        \/ Connect(c)
        \/ ConnBreak(c)
        \/ Publish(c)
        \/ Subscribe(c)
        \/ Unsubscribe(c)
        \/ Puback(c)
        \/ Pubrec(c)
        \/ Pubrel(c)
        \/ Pubcomp(c)
        \/ Disconnect(c)

Spec == Init /\ [][Next]_vars

\* ------------------------------------------ two established connections
\* Connection 1 serves client "a" and connection 2 client "b", both in their
\* main loop.  Each session may hold inbound QoS 2 messages that were
\* answered with PUBREC, and a subscription to "t"; only packets are handled.
FlowInbound ==
    UNION {[D -> {[topic |-> <<"t">>, payload |-> "x", retain |-> FALSE,
                   state |-> PUBREC_SENT]}] : D \in SUBSET ClientPids}

FlowSession(c, k, clean, inbound, granted) ==
    [ClientSession(k, clean) EXCEPT
        !.connected = TRUE,
        !.writer = c,
        !.keep_alive = 60,
        !.subscriptions[<<"t">>] = granted,
        !.pending_qos2 = inbound]

\* A session that was sent n QoS 1 messages and has acknowledged none.
Unacked(s, n) ==
    [s EXCEPT !.packet_id_counter = n,
              !.pending_qos1 = [p \in 1..n |->
                                   [topic |-> <<"t">>, payload |-> "x", qos |-> 1,
                                    retry_count |-> 0, timestamp |-> ticks_ms]]]

\* The two connections established under the configuration cfg, with the
\* clean-session flags, inbound tables, grants on "t" and numbers of
\* unacknowledged QoS 1 messages given per connection.
EstablishedSession(o, clean, inbound, granted, unacked, wills) ==
    [Unacked(FlowSession(o, IF o = 1 THEN "a" ELSE "b", clean[o], inbound[o],
                         granted[o]), unacked[o])
        EXCEPT !.will = IF wills[o] THEN WillOf(o) ELSE NoWill]

\* The broker with the session objects h[1] of "a" on connection 1 and h[2]
\* of "b" on connection 2, subscribed to t as granted says.
Planted(h, granted, cfg) ==
    /\ heap = [o \in Objs |-> IF o \in {1, 2} THEN h[o] ELSE NoSession]
    /\ subs = [f \in Filters |->
                 [k \in Clients |->
                     IF f = <<"t">> THEN granted[IF k = "a" THEN 1 ELSE 2]
                     ELSE NoSub]]
    /\ sessions = [k \in Clients |-> IF k = "a" THEN 1 ELSE 2]
    /\ retained = EmptyRetained
    /\ lru = <<>>
    /\ sock = [c \in Conns |-> IF c <= 2 THEN "open" ELSE "new"]
    /\ pc = [c \in Tasks |-> IF c = KA THEN "sleep" ELSE IF c <= 2 THEN "loop" ELSE "new"]
    /\ sess = [c \in Tasks |-> IF c \in {1, 2} THEN c ELSE 0]
    /\ td = [c \in Tasks |-> NoTd]
    /\ cdata = [c \in Tasks |-> NoData]
    /\ npackets = 0
    /\ route = NoRoute
    /\ connack = NoConnack
    /\ willPub = [c \in Conns |-> 0]
    /\ willLate = [c \in Conns |-> FALSE]
    /\ bye = [c \in Conns |-> <<>>]
    /\ discSent = [c \in Conns |-> FALSE]
    /\ inb = [c \in Conns |-> [p \in Pids |-> NoInb]]
    /\ displaced = [c \in Conns |-> FALSE]
    /\ last = NoCall
    /\ config = cfg
    /\ first = [c \in Conns |-> IF c <= 2 THEN "CONNACK" ELSE "none"]

Established(clean, inbound, granted, unacked, wills, cfg) ==
    Planted([o \in Conns |->
                EstablishedSession(o, clean, inbound, granted, unacked, wills)],
            granted, cfg)

InitFlow ==
    \E clean \in [Conns -> BOOLEAN], inbound \in [Conns -> FlowInbound],
       granted \in [Conns -> {NoSub} \cup QoS] :
       Established(clean, inbound, granted, [c \in Conns |-> 0],
                   [c \in Conns |-> FALSE], DefaultConfig)

NextFlow ==
    \E c \in Conns :
        \/ Publish(c)
        \/ Subscribe(c)
        \/ Unsubscribe(c)
        \/ Puback(c)
        \/ Pubrec(c)
        \/ Pubrel(c)
        \/ Pubcomp(c)

SpecFlow == InitFlow /\ [][NextFlow]_vars

\* ------------------------------------------- one publisher, one subscriber
\* Connection 1 serves the publisher "a", which has no subscription, and
\* connection 2 the subscriber "b", which holds a grant on "t" and has any
\* number of unacknowledged QoS 1 messages up to max_inflight.  "a" publishes
\* and "b" acknowledges; route keeps every route_publish call.
InitOrder ==
    \E clean \in BOOLEAN, granted \in QoS, n \in 0..max_inflight :
       Established([c \in Conns |-> clean], [c \in Conns |-> <<>>],
                   [c \in Conns |-> IF c = 2 THEN granted ELSE NoSub],
                   [c \in Conns |-> IF c = 2 THEN n ELSE 0],
                   [c \in Conns |-> FALSE], DefaultConfig)

\* _process_publish as a step of the connection task of c, observed.
PublishSeen(c) == PublishFrom(c, BOOLEAN, TRUE)

NextOrder ==
    \E c \in Conns :
        \/ PublishSeen(c)
        \/ Puback(c)

SpecOrder == InitOrder /\ [][NextOrder]_vars

\* ------------------------------------------------ packets that are refused
\* The broker with QoS 2 on or off and with or without an auth provider that
\* has authorize_publish.  Connection 1 serves the publisher "a", with or
\* without a will, and with or without the entry that handle_pubrel left in
\* pending_qos2 when an earlier QoS 2 message of it was released (which takes
\* QoS 2 to be on); connection
\* 2 serves "b", which holds the highest grant on "t" that the broker gives.
\* "a" publishes and releases, "b" subscribes and unsubscribes; last keeps
\* every call.
ReleasedInbound ==
    {<<>>} \cup
    {[p \in ClientPids |-> [topic |-> <<"t">>, payload |-> "x", retain |-> FALSE,
                            state |-> PUBCOMP_SENT]]}

InitRefuse ==
    \E qos2_enabled \in BOOLEAN, authorize_publish \in BOOLEAN, has_will \in BOOLEAN,
       inbound \in ReleasedInbound :
       /\ (inbound # <<>> => qos2_enabled)
       /\ Established([c \in Conns |-> TRUE],
                      [c \in Conns |-> IF c = 1 THEN inbound ELSE <<>>],
                      [c \in Conns |-> IF c = 1 THEN NoSub
                                       ELSE IF qos2_enabled THEN 2 ELSE 1],
                      [c \in Conns |-> 0],
                      [c \in Conns |-> c = 1 /\ has_will],
                      [DefaultConfig EXCEPT !.qos2_enabled = qos2_enabled,
                                            !.authorize_publish = authorize_publish])

SubscribeSeen(c) == SubscribeFrom(c, TRUE)

UnsubscribeSeen(c) == UnsubscribeFrom(c, TRUE)

NextRefuse ==
    \/ PublishSeen(1)
    \/ Pubrel(1)
    \/ SubscribeSeen(2)
    \/ UnsubscribeSeen(2)

SpecRefuse == InitRefuse /\ [][NextRefuse]_vars

\* ------------------------------------------- an awaitable on_connect hook
\* The broker with an on_connect hook that is a coroutine function.  Client
\* "b" was connected before with clean-session = false and has gone: its
\* session is in the table, not connected, with or without a subscription
\* to "t".  Connection 1 serves client "a".
HookSession(granted) ==
    [ClientSession("b", FALSE) EXCEPT !.subscriptions[<<"t">>] = granted]

\* The broker under the configuration cfg with connection 1 serving "a" and
\* the session stored of "b" in the table, not connected.
Returning(stored, cfg) ==
    /\ heap = [o \in Objs |->
                 IF o = Stored THEN stored
                 ELSE IF o = 1 THEN FlowSession(1, "a", TRUE, <<>>, NoSub)
                 ELSE NoSession]
    /\ subs = [EmptyTree EXCEPT ![<<"t">>]["b"] = stored.subscriptions[<<"t">>]]
    /\ sessions = [k \in Clients |-> IF k = "b" THEN Stored ELSE 1]
    /\ retained = EmptyRetained
    /\ lru = <<>>
    /\ sock = [c \in Conns |-> IF c = 1 THEN "open" ELSE "new"]
    /\ pc = [c \in Tasks |-> IF c = KA THEN "sleep" ELSE IF c = 1 THEN "loop" ELSE "new"]
    /\ sess = [c \in Tasks |-> IF c = 1 THEN 1 ELSE 0]
    /\ td = [c \in Tasks |-> NoTd]
    /\ cdata = [c \in Tasks |-> NoData]
    /\ npackets = 0
    /\ route = NoRoute
    /\ connack = NoConnack
    /\ willPub = [c \in Conns |-> 0]
    /\ willLate = [c \in Conns |-> FALSE]
    /\ bye = [c \in Conns |-> <<>>]
    /\ discSent = [c \in Conns |-> FALSE]
    /\ inb = [c \in Conns |-> [p \in Pids |-> NoInb]]
    /\ displaced = [c \in Conns |-> FALSE]
    /\ last = NoCall
    /\ config = cfg
    /\ first = [c \in Conns |-> IF c = 1 THEN "CONNACK" ELSE "none"]

InitHook ==
    \E granted \in {NoSub} \cup QoS :
        Returning(HookSession(granted),
                  [DefaultConfig EXCEPT !.on_connect = "awaitable"])

NextHook ==
    \/ Next
    \/ \E c \in Conns : ConnectHookReturn(c)

SpecHook == InitHook /\ [][NextHook]_vars

\* ------------------------------------------- a persistent session resumed
\* Client "b" has gone with a subscription to "t", with or without an
\* unacknowledged QoS 1 message, and with the messages that were queued for
\* it since (none of them above its grant); "a" publishes while "b" is
\* away, and "b" comes back on connection 2 and acknowledges.
MaxUnackedAway == 1

QueuedAway(granted) ==
    UNION {[1..n -> [topic : {<<"t">>}, payload : {"x"}, qos : 1..granted]] :
              n \in 0..max_queued_messages}

InitResume ==
    \E granted \in QoS, n \in 0..MaxUnackedAway :
        \E q \in QueuedAway(granted) :
            Returning([Unacked(HookSession(granted), n) EXCEPT !.queued_messages = q],
                      DefaultConfig)

NextResume ==
    \E c \in Conns :
        \/ Accept(c)
        \/ Connect(c)
        \/ Publish(c)
        \/ Puback(c)
        \/ Pubrec(c)
        \/ Pubcomp(c)
        \/ ConnBreak(c)
        \/ TdResume(c)

SpecResume == InitResume /\ [][NextResume]_vars

\* ------------------------------------------- QoSManager called directly
\* The tables a session can hold: every packet id with or without an entry,
\* in each table independently (the outbound counter wraps, and the inbound
\* ids are the client's choice, so one id can sit in all three tables).
Qos1Entry ==
    [topic |-> <<"t">>, payload |-> "x", qos |-> 1, retry_count |-> 0,
     timestamp |-> ticks_ms]

Qos2InEntries ==
    {[topic |-> <<"t">>, payload |-> "x", retain |-> FALSE, state |-> st] :
        st \in {PUBREC_SENT, PUBCOMP_SENT}}

Qos2OutEntries ==
    {[topic |-> <<"t">>, payload |-> "x", state |-> st, retry_count |-> 0,
      timestamp |-> ticks_ms] :
        st \in {AWAITING_PUBREC, AWAITING_PUBCOMP}}

TablesOf(entries) == UNION {[D -> entries] : D \in SUBSET Pids}

\* The session under test is the heap object 1.
InitQoS ==
    /\ \E q1 \in TablesOf({Qos1Entry}), q2 \in TablesOf(Qos2InEntries),
          q2o \in TablesOf(Qos2OutEntries) :
          heap = [o \in Objs |->
                     IF o = 1
                     THEN [ClientSession("a", FALSE) EXCEPT !.pending_qos1 = q1,
                                                            !.pending_qos2 = q2,
                                                            !.pending_qos2_out = q2o]
                     ELSE NoSession]
    /\ sessions = [c \in Clients |-> IF c = "a" THEN 1 ELSE 0]
    /\ subs = EmptyTree
    /\ retained = EmptyRetained
    /\ lru = <<>>
    /\ sock = [c \in Conns |-> "new"]
    /\ pc = [c \in Tasks |-> IF c = KA THEN "sleep" ELSE "new"]
    /\ sess = [c \in Tasks |-> 0]
    /\ td = [c \in Tasks |-> NoTd]
    /\ cdata = [c \in Tasks |-> NoData]
    /\ npackets = 0
    /\ route = NoRoute
    /\ connack = NoConnack
    /\ willPub = [c \in Conns |-> 0]
    /\ willLate = [c \in Conns |-> FALSE]
    /\ bye = [c \in Conns |-> <<>>]
    /\ discSent = [c \in Conns |-> FALSE]
    /\ inb = [c \in Conns |-> [p \in Pids |-> NoInb]]
    /\ displaced = [c \in Conns |-> FALSE]
    /\ last = NoCall
    /\ config = DefaultConfig
    /\ first = [c \in Conns |-> "none"]

\* One handler call on the session: last keeps the call, what it returned
\* and the session as it was.
QoSCall(op, pid, ret, s) ==
    /\ heap' = [heap EXCEPT ![1] = s]
    /\ last' = [op |-> op, pid |-> pid, ret |-> ret, before |-> heap[1]]

QoSFrame ==
    <<sessions, subs, retained, lru, sock, pc, sess, td, cdata, npackets, route,
      connack, willPub, willLate, bye, discSent, inb, displaced, config, first>>

HandlePuback ==
    /\ \E pid \in Pids :
          LET r == handle_puback(heap[1], pid) IN QoSCall("puback", pid, r.ret, r.s)
    /\ UNCHANGED QoSFrame

HandlePubrec ==
    /\ \E pid \in Pids :
          LET r == handle_pubrec(heap[1], pid) IN QoSCall("pubrec", pid, r.ret, r.s)
    /\ UNCHANGED QoSFrame

HandlePubrel ==
    /\ \E pid \in Pids :
          LET r == handle_pubrel(heap[1], pid) IN QoSCall("pubrel", pid, r.found, r.s)
    /\ UNCHANGED QoSFrame

HandlePubcomp ==
    /\ \E pid \in Pids :
          LET r == handle_pubcomp(heap[1], pid) IN QoSCall("pubcomp", pid, r.ret, r.s)
    /\ UNCHANGED QoSFrame

NextQoS == HandlePuback \/ HandlePubrec \/ HandlePubrel \/ HandlePubcomp

SpecQoS == InitQoS /\ [][NextQoS]_vars

\* ---------------------------------------------- Router called directly
\* A client id of the table is absent, connected, or not connected with a
\* persistent or a clean session; its tree entries and its inflight budget
\* (free or used up) are independent of that.
RouterKinds == {"absent", "connected", "offline", "offline_clean"}

ObjOf(k) == IF k = "a" THEN 1 ELSE 2

\* The tree entries of one client id: none or any grant, on every filter.
RouterGrants == [Filters -> {NoSub} \cup QoS]

FullTable == [p \in 1..max_inflight |-> Qos1Entry]

RouterSession(k, kind, granted, full) ==
    [ClientSession(k, kind = "offline_clean") EXCEPT
        !.connected = (kind = "connected"),
        !.writer = IF kind = "connected" THEN ObjOf(k) ELSE 0,
        !.subscriptions = granted,
        !.pending_qos1 = IF full THEN FullTable ELSE <<>>,
        !.packet_id_counter = IF full THEN max_inflight ELSE 0]

InitRouter ==
    /\ \E kind \in [Clients -> RouterKinds],
          granted \in [Clients -> RouterGrants],
          full \in [Clients -> BOOLEAN] :
          /\ heap = [o \in Objs |->
                       IF \E k \in Clients : ObjOf(k) = o /\ kind[k] # "absent"
                       THEN LET k == CHOOSE k \in Clients : ObjOf(k) = o
                            IN RouterSession(k, kind[k], granted[k], full[k])
                       ELSE NoSession]
          /\ sessions = [k \in Clients |-> IF kind[k] = "absent" THEN 0 ELSE ObjOf(k)]
          /\ subs = [f \in Filters |-> [k \in Clients |-> granted[k][f]]]
          /\ sock = [c \in Conns |->
                       IF \E k \in Clients : ObjOf(k) = c /\ kind[k] = "connected"
                       THEN "open" ELSE "new"]
    /\ retained = EmptyRetained
    /\ lru = <<>>
    /\ pc = [c \in Tasks |-> IF c = KA THEN "sleep" ELSE "new"]
    /\ sess = [c \in Tasks |-> 0]
    /\ td = [c \in Tasks |-> NoTd]
    /\ cdata = [c \in Tasks |-> NoData]
    /\ npackets = 0
    /\ route = NoRoute
    /\ connack = NoConnack
    /\ willPub = [c \in Conns |-> 0]
    /\ willLate = [c \in Conns |-> FALSE]
    /\ bye = [c \in Conns |-> <<>>]
    /\ discSent = [c \in Conns |-> FALSE]
    /\ inb = [c \in Conns |-> [p \in Pids |-> NoInb]]
    /\ displaced = [c \in Conns |-> FALSE]
    /\ last = NoCall
    /\ config = DefaultConfig
    /\ first = [c \in Conns |-> IF sock[c] = "open" THEN "CONNACK" ELSE "none"]

\* One route_publish call; route keeps the call, its copies, and the
\* session objects as they were.
RoutePublish ==
    /\ ~route.called
    /\ \E topic \in Topics, payload \in Payloads, qos \in QoS, retain \in BOOLEAN,
          sender_id \in Clients \cup {NoSender} :
          \E B \in {route_publish(Broker, topic, payload, qos, retain, sender_id)} :
          /\ heap' = B.heap
          /\ retained' = B.retained
          /\ lru' = B.lru
          /\ route' = [called |-> TRUE, topic |-> topic, qos |-> qos,
                       sender_id |-> sender_id, granted |-> B.route.granted,
                       copies |-> B.route.copies, before |-> heap]
    /\ UNCHANGED <<sessions, subs, sock, pc, sess, td, cdata, npackets, connack,
                   willPub, willLate, bye, discSent, inb, displaced, last, config, first>>

NextRouter == RoutePublish

SpecRouter == InitRouter /\ [][NextRouter]_vars

\* ------------------------------------------------ a broker for one client
\* The broker built with max_clients = 1 (BrokerConfig.validate, config.py
\* 93-94, asks for 1 at least).
InitCap == Boot([DefaultConfig EXCEPT !.max_clients = 1])

SpecCap == InitCap /\ [][Next]_vars

\* ------------------------------------------ the queue of an absent client
\* The broker built with any max_queued_messages that BrokerConfig.validate
\* accepts (config.py 114-115: not negative) up to the bound.  Each client
\* id is connected, or not connected with a persistent or a clean session,
\* and subscribed to "t"; messages are routed one after the other.
QueueKinds == {"connected", "offline", "offline_clean"}

QueueGrants(granted) == [f \in Filters |-> IF f = <<"t">> THEN granted ELSE NoSub]

InitQueue ==
    /\ \E kind \in [Clients -> QueueKinds], granted \in [Clients -> QoS],
          limit \in 0..max_queued_messages :
          /\ heap = [o \in Objs |->
                       IF \E k \in Clients : ObjOf(k) = o
                       THEN LET k == CHOOSE k \in Clients : ObjOf(k) = o
                            IN RouterSession(k, kind[k], QueueGrants(granted[k]), FALSE)
                       ELSE NoSession]
          /\ subs = [f \in Filters |-> [k \in Clients |-> QueueGrants(granted[k])[f]]]
          /\ sock = [c \in Conns |->
                       IF \E k \in Clients : ObjOf(k) = c /\ kind[k] = "connected"
                       THEN "open" ELSE "new"]
          /\ config = [DefaultConfig EXCEPT !.max_queued_messages = limit]
    /\ sessions = [k \in Clients |-> ObjOf(k)]
    /\ retained = EmptyRetained
    /\ lru = <<>>
    /\ pc = [c \in Tasks |-> IF c = KA THEN "sleep" ELSE "new"]
    /\ sess = [c \in Tasks |-> 0]
    /\ td = [c \in Tasks |-> NoTd]
    /\ cdata = [c \in Tasks |-> NoData]
    /\ npackets = 0
    /\ route = NoRoute
    /\ connack = NoConnack
    /\ willPub = [c \in Conns |-> 0]
    /\ willLate = [c \in Conns |-> FALSE]
    /\ bye = [c \in Conns |-> <<>>]
    /\ discSent = [c \in Conns |-> FALSE]
    /\ inb = [c \in Conns |-> [p \in Pids |-> NoInb]]
    /\ displaced = [c \in Conns |-> FALSE]
    /\ last = NoCall
    /\ first = [c \in Conns |-> IF sock[c] = "open" THEN "CONNACK" ELSE "none"]

\* One more route_publish call, of a message that no client of the table
\* sent; route keeps the call and the session objects as they were.
RouteNext ==
    \E payload \in PublishPayloads \ {""}, qos \in QoS :
        \E B \in {route_publish(Broker, <<"t">>, payload, qos, FALSE, NoSender)} :
        /\ heap' = B.heap
        /\ route' = [called |-> TRUE, topic |-> <<"t">>, payload |-> payload,
                     qos |-> qos, sender_id |-> NoSender,
                     granted |-> B.route.granted, raised |-> B.route.raised,
                     copies |-> B.route.copies, before |-> heap]
        /\ UNCHANGED <<sessions, subs, retained, lru, sock, pc, sess, td, cdata,
                       npackets, connack, willPub, willLate, bye, discSent, inb,
                       displaced, last, config, first>>

SpecQueue == InitQueue /\ [][RouteNext]_vars

\* ------------------------------------------ RetainedStore called directly
\* The broker built with any max_retained_messages that BrokerConfig.validate
\* accepts (config.py 120-121: not negative) up to MaxRetained, and an
\* empty store over the topics of RetainTopics.  Retained messages are set,
\* replaced and cleared one after the other; last keeps the call and the
\* store as it was.
MaxRetained == 2

RetainTopics == {<<"t">>, <<"u">>, <<"v">>}

InitRetained ==
    /\ \E limit \in 0..MaxRetained :
          config = [DefaultConfig EXCEPT !.max_retained_messages = limit]
    /\ heap = [o \in Objs |-> NoSession]
    /\ sessions = [c \in Clients |-> 0]
    /\ subs = EmptyTree
    /\ retained = [tp \in RetainTopics |-> NoMsg]
    /\ lru = <<>>
    /\ sock = [c \in Conns |-> "new"]
    /\ pc = [c \in Tasks |-> IF c = KA THEN "sleep" ELSE "new"]
    /\ sess = [c \in Tasks |-> 0]
    /\ td = [c \in Tasks |-> NoTd]
    /\ cdata = [c \in Tasks |-> NoData]
    /\ npackets = 0
    /\ route = NoRoute
    /\ connack = NoConnack
    /\ willPub = [c \in Conns |-> 0]
    /\ willLate = [c \in Conns |-> FALSE]
    /\ bye = [c \in Conns |-> <<>>]
    /\ discSent = [c \in Conns |-> FALSE]
    /\ inb = [c \in Conns |-> [p \in Pids |-> NoInb]]
    /\ displaced = [c \in Conns |-> FALSE]
    /\ last = NoCall
    /\ first = [c \in Conns |-> "none"]

RetainedFrame ==
    <<heap, sessions, subs, sock, pc, sess, td, cdata, npackets, route, connack,
      willPub, willLate, bye, discSent, inb, displaced, config, first>>

\* RetainedStore.set(topic, payload, qos); an empty payload clears.
RetainedSet ==
    /\ \E topic \in RetainTopics, payload \in PublishPayloads \cup {""},
          qos \in {0, 1} :
          \E r \in {retained_set(retained, lru, topic, payload, qos,
                                 config.max_retained_messages)} :
          /\ retained' = r.ret
          /\ lru' = r.lru
          /\ last' = [op |-> "set", topic |-> topic, payload |-> payload, qos |-> qos,
                      ret |-> retained, lru |-> lru]
    /\ UNCHANGED RetainedFrame

\* RetainedStore.clear(topic)
RetainedClear ==
    /\ \E topic \in RetainTopics :
          \E r \in {retained_clear(retained, lru, topic)} :
          /\ retained' = r.ret
          /\ lru' = r.lru
          /\ last' = [op |-> "clear", topic |-> topic, payload |-> "", qos |-> 0,
                      ret |-> retained, lru |-> lru]
    /\ UNCHANGED RetainedFrame

NextRetained == RetainedSet \/ RetainedClear

SpecRetained == InitRetained /\ [][NextRetained]_vars

\* ---------------------------------------------- TopicTree called directly
\* A tree in which client "a" holds any of the filters of TreeFilters, and
\* retained messages on any of the topics of TreeTopics; match and
\* get_retained_matching are called, and last keeps the call and its result.
TreeTopics == {<<"t">>, <<"t", "x">>, <<"$SYS">>, <<"$SYS", "x">>}

TreeFilters ==
    {<<"#">>, <<"+">>, <<"+", "#">>, <<"+", "x">>, <<"$SYS", "#">>, <<"$SYS", "+">>,
     <<"t">>, <<"t", "#">>}

InitTree ==
    /\ \E held \in SUBSET TreeFilters, kept \in SUBSET TreeTopics :
          /\ subs = [f \in TreeFilters |->
                       [c \in Clients |-> IF c = "a" /\ f \in held THEN 1 ELSE NoSub]]
          /\ retained = [tp \in TreeTopics |->
                           IF tp \in kept
                           THEN [set |-> TRUE, payload |-> "x", qos |-> 0]
                           ELSE NoMsg]
    /\ heap = [o \in Objs |-> NoSession]
    /\ sessions = [c \in Clients |-> 0]
    /\ lru = <<>>
    /\ sock = [c \in Conns |-> "new"]
    /\ pc = [c \in Tasks |-> IF c = KA THEN "sleep" ELSE "new"]
    /\ sess = [c \in Tasks |-> 0]
    /\ td = [c \in Tasks |-> NoTd]
    /\ cdata = [c \in Tasks |-> NoData]
    /\ npackets = 0
    /\ route = NoRoute
    /\ connack = NoConnack
    /\ willPub = [c \in Conns |-> 0]
    /\ willLate = [c \in Conns |-> FALSE]
    /\ bye = [c \in Conns |-> <<>>]
    /\ discSent = [c \in Conns |-> FALSE]
    /\ inb = [c \in Conns |-> [p \in Pids |-> NoInb]]
    /\ displaced = [c \in Conns |-> FALSE]
    /\ last = NoCall
    /\ config = DefaultConfig
    /\ first = [c \in Conns |-> "none"]

TreeFrame ==
    <<heap, sessions, subs, retained, lru, sock, pc, sess, td, cdata, npackets,
      route, connack, willPub, willLate, bye, discSent, inb, displaced, config, first>>

\* TopicTree.match(topic)
TreeMatch ==
    /\ \E topic \in TreeTopics :
          last' = [op |-> "match", topic |-> topic,
                   clients |-> DOMAIN match(subs, topic)]
    /\ UNCHANGED TreeFrame

\* TopicTree.get_retained_matching(filter)
TreeRetainedMatching ==
    /\ \E filter \in TreeFilters :
          last' = [op |-> "get_retained_matching", filter |-> filter,
                   topics |-> get_retained_matching(retained, filter)]
    /\ UNCHANGED TreeFrame

NextTree == TreeMatch \/ TreeRetainedMatching

SpecTree == InitTree /\ [][NextTree]_vars

\* ------------------------------------------------- hooks that raise
\* Connection 1 serves "a", "b" has a stored session; every hook is
\* registered and raises, or none is; the interceptors registered raise or
\* pass.
HookKinds == {"none", "raise"}

RaisingPipelines == {<<>>, <<"pass", "raise">>}

InitRaise ==
    \E hooks \in HookKinds, interceptors \in RaisingPipelines :
        Returning(HookSession(1),
                  [DefaultConfig EXCEPT !.hooks = hooks, !.interceptors = interceptors])

ConnBreakSeen(c) == ConnBreakFrom(c, TRUE)

NextRaise ==
    \/ Accept(2)
    \/ Connect(2)
    \/ ConnBreakSeen(2)
    \/ TdResume(2)
    \/ PublishSeen(2)
    \/ SubscribeSeen(2)
    \/ UnsubscribeSeen(2)

SpecRaise == InitRaise /\ [][NextRaise]_vars

\* --------------------------------------------- the ends of a connection
\* Connection 1 serves "a", "b" has a stored session; connection 2 arrives
\* and every connection ends in one of the ways the code has.
InitEnds == \E granted \in {NoSub, 1} : Returning(HookSession(granted), DefaultConfig)

NextEnds ==
    \/ KeepAliveSweep
    \/ \E c \in Tasks : TdResume(c)
    \/ \E c \in Conns :
        \/ Accept(c)
        \/ Connect(c)
        \/ ConnectLost(c)
        \/ ConnBreak(c)
        \/ Disconnect(c)
        \/ Subscribe(c)

SpecEnds == InitEnds /\ [][NextEnds]_vars

\* ------------------------------------------------------ disconnect_client
\* Two established connections, each with or without a will; the
\* application disconnects clients, and the connection tasks notice.
InitAdmin ==
    \E wills \in [Conns -> BOOLEAN], clean \in [Conns -> BOOLEAN] :
       Established(clean, [c \in Conns |-> <<>>], [c \in Conns |-> 1],
                   [c \in Conns |-> 0], wills, DefaultConfig)

NextAdmin ==
    \/ \E k \in Clients, graceful \in BOOLEAN : DisconnectClient(k, graceful)
    \/ \E c \in Tasks : TdResume(c)
    \/ \E c \in Conns : ConnBreak(c)

SpecAdmin == InitAdmin /\ [][NextAdmin]_vars

\* --------------------------------------------------- the keep-alive sweep
\* Two sessions with keep-alive 0 or 2 s, connected or already marked
\* disconnected by a failed send, with or without a will; the sweep finds
\* each of them idle for some time around 2 s * 1.5.
SweepKeepAlives == {0, 2}

SweepElapsed == {0, 3000, 3001}

InitSweep ==
    \E keep_alive \in [Conns -> SweepKeepAlives], connected \in [Conns -> BOOLEAN],
       wills \in [Conns -> BOOLEAN], clean \in BOOLEAN :
       Planted([o \in Conns |->
                   [EstablishedSession(o, [c \in Conns |-> clean],
                                       [c \in Conns |-> <<>>], [c \in Conns |-> 1],
                                       [c \in Conns |-> 0], wills)
                       EXCEPT !.keep_alive = keep_alive[o],
                              !.connected = connected[o]]],
               [c \in Conns |-> 1], DefaultConfig)

NextSweep ==
    \/ \E k \in Clients, elapsed_ms \in SweepElapsed : KeepAliveCheck(k, elapsed_ms)
    \/ TdResume(KA)

SpecSweep == InitSweep /\ [][NextSweep]_vars

\* ------------------------------------------------- the retransmit sweep
\* Connection 1 publishes to t, connection 2 is subscribed to t and has
\* acknowledged none of the QoS 1 messages sent to it so far, nor the QoS 2
\* message when it was sent one; the retransmit task sweeps while the two
\* connections go on.
InitRetx ==
    \E granted \in {1, 2}, unacked \in 0..(max_inflight - 1), out \in BOOLEAN,
       retries \in 0..qos_max_retries :
       Planted([o \in Conns |->
                   LET s == EstablishedSession(
                                o, [c \in Conns |-> TRUE], [c \in Conns |-> <<>>],
                                [c \in Conns |-> IF c = 2 THEN granted ELSE NoSub],
                                [c \in Conns |-> IF c = 2 THEN unacked ELSE 0],
                                [c \in Conns |-> FALSE])
                   IN IF o = 2 /\ out
                      THEN track_outbound_qos2(next_packet_id(s), unacked + 1,
                                               <<"t">>, "x")
                      ELSE s],
               [c \in Conns |-> IF c = 2 THEN granted ELSE NoSub],
               [DefaultConfig EXCEPT !.qos_max_retries = retries])

NextRetx ==
    \/ RetransmitBegin(1)
    \/ RetransmitBegin(2)
    \/ RetransmitResume
    \/ Elapse
    \/ Publish(1)
    \/ Puback(2)
    \/ Pubrec(2)
    \/ Pubcomp(2)

SpecRetx == InitRetx /\ [][NextRetx]_vars

\* --------------------------------------------------- writes to a socket
\* Connection 1 serves "a"; "b" has a stored session subscribed to t, with
\* or without an unacknowledged QoS 1 message; connection 2 arrives for
\* "b" while "a" publishes and the retransmit task sweeps.
InitWrite ==
    \E unacked \in 0..1 :
        Returning(Unacked(HookSession(1), unacked), DefaultConfig)

\* session.send takes the write lock of the session: a fan-out waits while
\* another task holds the lock of a session.
PublishLocked(c) ==
    /\ \A o \in Objs : heap[o] # NoSession => heap[o].write_lock = 0
    /\ PublishFrom(c, Retains, TRUE)

NextWrite ==
    \/ Accept(2)
    \/ ConnectDrain(2)
    \/ ConnackDrained(2)
    \/ PublishLocked(1)
    \/ Puback(2)
    \/ RetransmitBegin(Stored)
    \/ RetransmitResume
    \/ Elapse

SpecWrite == InitWrite /\ [][NextWrite]_vars

\* ---------------------------------------------- SUBSCRIBE with several filters
\* Filters are sequences of levels.  A level that mixes a wildcard with other
\* characters is one string.
max_topic_levels == 2

SubHeld == {<<"t">>, <<"u">>, <<"v">>}
SubRequested == SubHeld \cup {<<"#", "t">>, <<"t+">>, <<"t", "u", "v">>}

\* utils.validate_topic_filter (lines 119-154): the filter is not empty, '#'
\* is the last character and is alone or follows '/', '+' occupies a whole
\* level.  The length limit of 256 bytes is beyond the filters of the model.
validate_topic_filter(topic_filter) ==
    /\ topic_filter # <<>>
    /\ \A i \in 1..Len(topic_filter) :
          /\ topic_filter[i] = "#" => i = Len(topic_filter)
          /\ topic_filter[i] \notin {"t+", "t#"}

\* What the on_subscribe hook returns: None, a QoS, or 0x80.
HookGrants == {"none", "grant2", "reject"}

hook_grant(result) == IF result = "grant2" THEN 2 ELSE 128

\* len(session.subscriptions)
held_filters(s) ==
    Cardinality({f \in DOMAIN s.subscriptions : s.subscriptions[f] # NoSub})

\* Lines 693-730 for one topic, the checks that precede the on_subscribe
\* hook: 128 when the topic is refused, else the QoS handed to the hook.
\* auth_qos is what authorize_subscribe returns (the base provider, like no
\* provider, allows QoS 2).
subscribe_checks(B, o, topic, auth_qos) ==
    LET capped == IF (~B.config.qos2_enabled) /\ topic.qos > 1 THEN 1 ELSE topic.qos
    IN IF \/ held_filters(B.heap[o]) >= max_subscriptions_per_client
          \/ ~validate_topic_filter(topic.filter)
          \/ Len(topic.filter) > max_topic_levels
          \/ auth_qos < 0
       THEN 128
       ELSE IF auth_qos < capped THEN auth_qos ELSE capped

\* Lines 733-755 for one topic, from the return of the hook: result is what
\* the hook returned.
subscribe_grant(B, o, topic, qos, result) ==
    LET s == B.heap[o]
        granted_qos == IF result # "none" THEN hook_grant(result) ELSE qos
        s1 == [s EXCEPT !.subscriptions[topic.filter] = granted_qos]
        s2 == deliver_retained(s1, Open(B, o), B.retained, topic.filter, granted_qos)
    IN IF granted_qos = 128
       THEN [B |-> B, grant |-> 128]
       ELSE [B |-> [B EXCEPT !.subs = subscribe(B.subs, topic.filter, s.client_id,
                                                granted_qos),
                             !.heap[o] = s2],
             grant |-> granted_qos]

\* The loop of _process_subscribe (lines 692-755) from the i-th topic on,
\* with a hook that returns at once; topics[i] is the requested filter and
\* QoS together with what the on_subscribe hook returns for it, grants is
\* granted_qos_list.
RECURSIVE subscribe_topics(_, _, _, _, _, _)
subscribe_topics(B, o, topics, i, auth_qos, grants) ==
    IF i > Len(topics) THEN [B |-> B, grants |-> grants]
    ELSE LET qos == subscribe_checks(B, o, topics[i], auth_qos)
             r == subscribe_grant(B, o, topics[i], qos,
                                  fire_hook(hook_answer(B, topics[i].hook)).value)
         IN IF qos = 128
            THEN subscribe_topics(B, o, topics, i + 1, auth_qos, Append(grants, 128))
            ELSE subscribe_topics(r.B, o, topics, i + 1, auth_qos,
                                  Append(grants, r.grant))

\* The same loop up to the next call of the hook: i is the topic whose hook
\* is called (past the end when the loop is over), qos what is handed to it.
RECURSIVE subscribe_until_hook(_, _, _, _, _, _)
subscribe_until_hook(B, o, topics, i, auth_qos, grants) ==
    IF i > Len(topics) THEN [i |-> i, grants |-> grants, qos |-> 128]
    ELSE IF subscribe_checks(B, o, topics[i], auth_qos) = 128
    THEN subscribe_until_hook(B, o, topics, i + 1, auth_qos, Append(grants, 128))
    ELSE [i |-> i, grants |-> grants,
          qos |-> subscribe_checks(B, o, topics[i], auth_qos)]

SubTopics == [filter : SubRequested, qos : SubQoS, hook : HookGrants]

\* SUBSCRIBE packets with one or two topics; packet.parse_subscribe (lines
\* 328-378) refuses the packet id 0 and a packet without topics.
SubscribeRequests ==
    [pid : {1}, topics : {<<x>> : x \in SubTopics}
                         \cup {<<x, y>> : x \in SubTopics, y \in SubTopics}]
    \cup [pid : {0}, topics : {<<[filter |-> <<"t">>, qos |-> 1, hook |-> "none"]>>}]
    \cup [pid : {1}, topics : {<<>>}]

malformed_topics(p) == p.pid = 0 \/ p.topics = <<>>

AuthAnswers == {-1, 1, 2}

NoSuback == [sent |-> 0, pid |-> 0, grants |-> <<>>]

\* _process_subscribe (lines 677-760): the packets built by build_suback and
\* handed to session.send are recorded.
SubscribeTopics(c) ==
    /\ Reading(c)
    /\ config.on_subscribe # "awaitable"
    /\ last = NoCall
    /\ \E p \in SubscribeRequests, auth_qos \in AuthAnswers :
          LET o == sess[c]
          IN \E r \in {IF malformed_topics(p) THEN [B |-> Broker, grants |-> <<>>]
                       ELSE subscribe_topics(Broker, o, p.topics, 1, auth_qos, <<>>)} :
                /\ IF malformed_topics(p)
                   THEN auth_qos = 2 /\ Handled(Broker, c)
                   ELSE Handled(send_ack(r.B, o), c)
                /\ last' = [op |-> "subscribe", conn |-> c, obj |-> o, pkt |-> p,
                            auth_qos |-> auth_qos,
                            suback |-> IF malformed_topics(p) THEN NoSuback
                                       ELSE [sent |-> 1, pid |-> p.pid,
                                             grants |-> r.grants],
                            before |-> heap[o].subscriptions,
                            tree |-> subs]
    /\ npackets' = npackets + 1
    /\ UNCHANGED <<inb, displaced>>

\* Connection 1 serves the persistent session of "a", which holds the
\* filters of held at QoS 1, in the session and in the tree.
Holding(held, cfg) ==
    /\ heap = [o \in Objs |->
                 IF o = 1
                 THEN [FlowSession(1, "a", FALSE, <<>>, NoSub)
                         EXCEPT !.subscriptions =
                                   [f \in SubRequested |->
                                       IF f \in held THEN 1 ELSE NoSub]]
                 ELSE NoSession]
    /\ subs = [f \in SubRequested |->
                 [k \in Clients |-> IF k = "a" /\ f \in held THEN 1 ELSE NoSub]]
    /\ sessions = [k \in Clients |-> IF k = "a" THEN 1 ELSE 0]
    /\ retained = EmptyRetained
    /\ lru = <<>>
    /\ sock = [c \in Conns |-> IF c = 1 THEN "open" ELSE "new"]
    /\ pc = [c \in Tasks |-> IF c = KA THEN "sleep" ELSE IF c = 1 THEN "loop"
                             ELSE "new"]
    /\ sess = [c \in Tasks |-> IF c = 1 THEN 1 ELSE 0]
    /\ td = [c \in Tasks |-> NoTd]
    /\ cdata = [c \in Tasks |-> NoData]
    /\ npackets = 0
    /\ route = NoRoute
    /\ connack = NoConnack
    /\ willPub = [c \in Conns |-> 0]
    /\ willLate = [c \in Conns |-> FALSE]
    /\ bye = [c \in Conns |-> <<>>]
    /\ discSent = [c \in Conns |-> FALSE]
    /\ inb = [c \in Conns |-> [p \in Pids |-> NoInb]]
    /\ displaced = [c \in Conns |-> FALSE]
    /\ last = NoCall
    /\ config = cfg
    /\ first = [c \in Conns |-> IF c = 1 THEN "CONNACK" ELSE "none"]

HeldSets == {held \in SUBSET SubHeld : Cardinality(held) <= max_subscriptions_per_client}

InitSub ==
    \E held \in HeldSets, qos2_enabled \in BOOLEAN :
        Holding(held, [DefaultConfig EXCEPT !.qos2_enabled = qos2_enabled])

NextSub == SubscribeTopics(1)

SpecSub == InitSub /\ [][NextSub]_vars

\* ------------------------------------------------------------ shutdown
\* _handle_client lines 334-340: the CONNECT of a connection that was
\* accepted is read after shutdown has cleared the flag.
ConnectShut(c) ==
    /\ pc[c] = "wait_connect"
    /\ ~running
    /\ Commit([Broker EXCEPT !.sock[c] = "closed",
                             !.connack = [sent |-> TRUE, conn |-> c, code |-> 3,
                                          session_present |-> FALSE]],
              c, "done", 0, NoTd, NoData)
    /\ UNCHANGED <<npackets, inb, displaced, last>>

\* The main loop of _handle_client tests `session.connected and
\* self._running` (line 352), or its read fails on the closed socket (lines
\* 360-366): the task leaves the loop and runs its finally clause.
LoopEnd(c) ==
    /\ pc[c] = "loop"
    /\ ~(heap[sess[c]].connected /\ running /\ sock[c] = "open")
    /\ ConnBreak(c)

\* The loop of shutdown (lines 1104-1107) over the client ids keys, up to
\* the first await that suspends or to its end.
RECURSIVE shutdown_loop(_, _)
shutdown_loop(B, keys) ==
    IF keys = <<>> THEN [B |-> B, next |-> "finished", obj |-> 0, keys |-> <<>>]
    ELSE LET o == B.sessions[Head(keys)] IN
         IF o # 0 /\ B.heap[o].connected
         THEN LET r == td_start(B, o, FALSE, "none") IN
              IF r.next = "finished" THEN shutdown_loop(r.B, Tail(keys))
              ELSE [B |-> r.B, next |-> r.next, obj |-> o, keys |-> Tail(keys)]
         ELSE shutdown_loop(B, Tail(keys))

ShutdownFrom(keys) ==
    \E r \in {shutdown_loop(Broker, keys)} :
       IF r.next = "finished"
       THEN Commit(r.B, Shut, "done", 0, NoTd, NoData)
       ELSE Commit(r.B, Shut, r.next, 0, [obj |-> r.obj, cont |-> "shutdown"],
                   [keys |-> r.keys])

\* MQTTBroker.shutdown (lines 1098-1122): the flag is cleared and the loop
\* starts on list(self.sessions.keys()).
Shutdown ==
    /\ pc[Shut] = "new"
    /\ ShutdownFrom(SelectSeq(DictOrder, LAMBDA k : sessions[k] # 0))
    /\ UNCHANGED <<npackets, inb, displaced, last>>

\* The loop goes on after a teardown that was awaited.
ShutdownNext ==
    /\ pc[Shut] = "shut_loop"
    /\ ShutdownFrom(cdata[Shut].keys)
    /\ UNCHANGED <<npackets, inb, displaced, last>>

\* "a" is served on connection 1 and "b" has a stored session; connection 2
\* arrives.
InitShut ==
    \E on_connect \in {"none", "awaitable"} :
       Returning(HookSession(1), [DefaultConfig EXCEPT !.on_connect = on_connect])

NextShut ==
    \/ Shutdown
    \/ ShutdownNext
    \/ TdResume(Shut)
    \/ Accept(2)
    \/ Connect(2)
    \/ ConnectShut(2)
    \/ ConnectHookReturn(2)
    \/ TdResume(2)
    \/ \E c \in Conns : LoopEnd(c)
    \/ TdResume(1)

SpecShut == InitShut /\ [][NextShut]_vars

\* A task that is suspended in an await resumes, and a task whose loop
\* condition is false leaves the loop.
SpecShutFair ==
    /\ SpecShut
    /\ WF_vars(ShutdownNext)
    /\ \A c \in Tasks : WF_vars(TdResume(c))
    /\ \A c \in Conns : WF_vars(LoopEnd(c))
    /\ WF_vars(ConnectHookReturn(2))
    /\ WF_vars(ConnectShut(2))

\* ------------------------------------------------ interceptor pipelines
Pipelines ==
    {<<>>, <<"set_payload", "grow_payload">>, <<"grow_payload", "set_payload">>,
     <<"pass", "drop", "grow_payload">>, <<"set_retain", "raise", "set_qos">>,
     <<"redirect", "raise_qos">>, <<"drop", "drop">>}

\* "a" on connection 1 publishes through the pipeline, "b" on connection 2
\* is subscribed to t.
InitPipe ==
    \E interceptors \in Pipelines :
        Established([c \in Conns |-> TRUE], [c \in Conns |-> <<>>],
                    [c \in Conns |-> IF c = 1 THEN NoSub ELSE 2],
                    [c \in Conns |-> 0], [c \in Conns |-> FALSE],
                    [DefaultConfig EXCEPT !.interceptors = interceptors])

NextPipe ==
    \/ PublishSeen(1)
    \/ TdResume(1)

SpecPipe == InitPipe /\ [][NextPipe]_vars

\* ------------------------------------- SUBSCRIBE with an awaitable hook
RaceTopics == [filter : SubHeld, qos : {1}, hook : {"none"}]

RaceRequests == [pid : {1}, topics : {<<x>> : x \in RaceTopics}]

SubscribeDone(B, c, o, frame, grants) ==
    /\ Handled(send_ack(B, o), c)
    /\ last' = [op |-> "subscribe", conn |-> c, obj |-> o, pkt |-> frame.pkt,
                auth_qos |-> frame.auth_qos,
                suback |-> [sent |-> 1, pid |-> frame.pkt.pid, grants |-> grants],
                before |-> frame.before, tree |-> frame.tree]

SubscribeSuspend(B, c, frame, r) ==
    /\ Commit(B, c, "sub_hook", sess[c], NoTd,
              [frame EXCEPT !.i = r.i, !.grants = r.grants, !.qos = r.qos])
    /\ last' = last

\* _process_subscribe (lines 677-760) with an on_subscribe hook that is a
\* coroutine: _fire_hook (line 131) awaits it, and the task is suspended at
\* line 733 with its local variables.
SubscribeAwait(c) ==
    /\ Reading(c)
    /\ config.on_subscribe = "awaitable"
    /\ \E p \in RaceRequests :
          LET o == sess[c]
              frame == [pkt |-> p, auth_qos |-> 2, obj |-> o, i |-> 1,
                        grants |-> <<>>, qos |-> 128,
                        before |-> heap[o].subscriptions, tree |-> subs]
          IN \E r \in {subscribe_until_hook(Broker, o, p.topics, 1, 2, <<>>)} :
                IF r.i > Len(p.topics)
                THEN SubscribeDone(Broker, c, o, frame, r.grants)
                ELSE SubscribeSuspend(Broker, c, frame, r)
    /\ npackets' = npackets + 1
    /\ UNCHANGED <<inb, displaced>>

\* The hook returns and the handler carries on from line 734.
SubscribeHookReturn(c) ==
    /\ pc[c] = "sub_hook"
    /\ LET frame == cdata[c]
           o == frame.obj
           topic == frame.pkt.topics[frame.i]
       IN \E g \in {subscribe_grant(Broker, o, topic, frame.qos,
                                     fire_hook(hook_answer(Broker, topic.hook)).value)} :
          \E r \in {subscribe_until_hook(g.B, o, frame.pkt.topics, frame.i + 1,
                                         frame.auth_qos, Append(frame.grants, g.grant))} :
             IF r.i > Len(frame.pkt.topics)
             THEN SubscribeDone(g.B, c, o, frame, r.grants)
             ELSE SubscribeSuspend(g.B, c, frame, r)
    /\ UNCHANGED <<npackets, inb, displaced>>

InitSubRace ==
    \E held \in HeldSets :
        Holding(held, [DefaultConfig EXCEPT !.on_subscribe = "awaitable"])

\* The client of "a" connects again with clean session 0 while its first
\* connection is served (the table keeps its entry).
NextSubRace ==
    \/ Accept(2)
    \/ Connect(2) /\ sessions' = sessions
    \/ TdResume(2) /\ sessions' = sessions
    \/ \E c \in Conns : SubscribeAwait(c)
    \/ \E c \in Conns : SubscribeHookReturn(c)

SpecSubRace == InitSubRace /\ [][NextSubRace]_vars

\* The sweep runs every qos_retry_interval for every session of the table
\* (lines 1056-1060), and an awaited send returns.
SpecRetxFair ==
    /\ SpecRetx
    /\ SF_vars(Elapse)
    /\ SF_vars(RetransmitBegin(1))
    /\ SF_vars(RetransmitBegin(2))
    /\ WF_vars(RetransmitResume)


\* ------------------------------------------------------------- properties
\* C1: an inbound QoS 2 PUBLISH with packet id p is handed to route_publish
\* at most once; a PUBREL(p) resent after the PUBCOMP is not routed again.
C1_RoutedAtMostOnce ==
    \A c \in Conns, p \in Pids : inb[c][p].routed <= 1

\* C2: once the broker has sent PUBCOMP for the inbound packet id p, the
\* session's pending_qos2 no longer holds p, so the completed handshake does
\* not count in the inflight budget.
C2_InboundReleasedAfterPubcomp ==
    \A c \in Conns, p \in Pids :
        (pc[c] = "loop" /\ inb[c][p].pubcomp) =>
            p \notin DOMAIN heap[sess[c]].pending_qos2

\* C3: handle_puback(p) changes only pending_qos1: pending_qos2 and
\* pending_qos2_out are as before, every other field too; it returns False
\* and changes nothing when pending_qos1 has no entry p, and otherwise
\* returns True and removes exactly that entry.
C3_PubackOnlyPendingQos1 ==
    last.op = "puback" =>
        LET b == last.before
            a == heap[1]
        IN /\ a.pending_qos2 = b.pending_qos2
           /\ a.pending_qos2_out = b.pending_qos2_out
           /\ [a EXCEPT !.pending_qos1 = b.pending_qos1] = b
           /\ (last.pid \notin DOMAIN b.pending_qos1 => (~last.ret) /\ a = b)
           /\ (last.pid \in DOMAIN b.pending_qos1 =>
                 last.ret /\ a.pending_qos1 = Without(b.pending_qos1, last.pid))

\* C3 witness: a PUBACK for an id that all three tables held removed the
\* pending_qos1 entry and left the two QoS 2 entries.
C3_Witness ==
    /\ last.op = "puback"
    /\ last.ret
    /\ last.pid \in DOMAIN last.before.pending_qos1
    /\ last.pid \in DOMAIN last.before.pending_qos2
    /\ last.pid \in DOMAIN last.before.pending_qos2_out
    /\ last.pid \notin DOMAIN heap[1].pending_qos1
    /\ last.pid \in DOMAIN heap[1].pending_qos2
    /\ last.pid \in DOMAIN heap[1].pending_qos2_out

\* C4: handle_pubrec(p) and handle_pubcomp(p) change only pending_qos2_out:
\* pending_qos1 and the inbound table pending_qos2 are as before, also when
\* p has an entry in pending_qos2 and none in pending_qos2_out.
C4_PubrecPubcompOnlyQos2Out ==
    last.op \in {"pubrec", "pubcomp"} =>
        /\ heap[1].pending_qos1 = last.before.pending_qos1
        /\ heap[1].pending_qos2 = last.before.pending_qos2

\* C5: every copy that route_publish sends, tracks or queues carries
\* min(publish QoS, granted QoS), never more than either; a queued copy is
\* queued with that QoS, a copy sent at QoS 1 or 2 is tracked in the table of
\* that QoS only, and a copy sent at QoS 0 leaves both outbound tables as
\* they were.
C5_CopyCarriesMinQoS ==
    route.called =>
        \A k \in route.copies :
            LET g == route.granted[k.client_id]
                e == IF route.qos <= g THEN route.qos ELSE g
                b == route.before[k.obj]
                a == heap[k.obj]
            IN k.how \in {"sent", "queued"} =>
                 /\ k.pkt.qos = e
                 /\ k.pkt.qos <= route.qos
                 /\ k.pkt.qos <= g
                 /\ (k.how = "queued" =>
                        /\ a.queued_messages # <<>>
                        /\ a.queued_messages[Len(a.queued_messages)].qos = e
                        /\ e > 0
                        /\ a.pending_qos1 = b.pending_qos1
                        /\ a.pending_qos2_out = b.pending_qos2_out)
                 /\ (k.how = "sent" /\ e = 0 =>
                        /\ a.pending_qos1 = b.pending_qos1
                        /\ a.pending_qos2_out = b.pending_qos2_out
                        /\ a.queued_messages = b.queued_messages)
                 /\ (k.how = "sent" /\ e = 1 =>
                        /\ k.pkt.pid \in DOMAIN a.pending_qos1
                        /\ a.pending_qos1[k.pkt.pid].qos = 1
                        /\ a.pending_qos2_out = b.pending_qos2_out)
                 /\ (k.how = "sent" /\ e = 2 =>
                        /\ k.pkt.pid \in DOMAIN a.pending_qos2_out
                        /\ a.pending_qos1 = b.pending_qos1)

\* C5 witness: one call sent a copy downgraded to the publish QoS 1 for a
\* subscriber granted QoS 2, and a QoS 0 copy to another subscriber.
C5_Witness ==
    /\ route.called
    /\ route.qos = 1
    /\ \E k \in route.copies :
          k.how = "sent" /\ route.granted[k.client_id] = 2 /\ k.pkt.qos = 1
    /\ \E k \in route.copies :
          k.how = "sent" /\ route.granted[k.client_id] = 0 /\ k.pkt.qos = 0

\* C6: route_publish with sender_id s makes no copy for the client id s and
\* leaves its session as it was; a broker-originated publish (no sender)
\* makes a copy for every client id of the table that has a filter matching
\* the topic, and sends or queues it when that session is connected.
C6_NoEchoToSender ==
    route.called =>
        LET matching == {c \in Clients :
                           \E f \in Filters :
                               subs[f][c] # NoSub /\ retained_matches(f, route.topic, 0)}
        IN /\ \A k \in route.copies : k.client_id # route.sender_id
           /\ \A c \in Clients :
                 (c = route.sender_id /\ sessions[c] # 0) =>
                     heap[sessions[c]] = route.before[sessions[c]]
           /\ DOMAIN route.granted = matching
           /\ \A c \in matching :
                 (c # route.sender_id /\ sessions[c] # 0) =>
                     \E k \in route.copies :
                         /\ k.client_id = c
                         /\ k.obj = sessions[c]
                         /\ (route.before[k.obj].connected =>
                                k.how \in {"sent", "queued"})

\* C6 witness: the sender is connected and subscribed to a matching filter,
\* and the call sent a copy to the other client only.
C6_Witness ==
    /\ route.called
    /\ route.sender_id \in DOMAIN route.granted
    /\ sessions[route.sender_id] # 0
    /\ heap[sessions[route.sender_id]].connected
    /\ \E k \in route.copies : k.how = "sent" /\ k.client_id # route.sender_id

\* C7: the will of a connection is published at most once, and never after
\* the client sent DISCONNECT on that connection.
C7_WillAtMostOnce ==
    \A c \in Conns : willPub[c] <= 1 /\ ~willLate[c]

\* C8: at most one connection is served as connected per client id; when
\* the CONNECT of a connection displaced a connected session and is
\* accepted, the client id maps to the new connection's session, which is
\* connected, every other connection of that client id has its socket
\* closed, and as long as the new connection is served its client id maps
\* to its session.  A connection is served when its task reads in the main
\* loop, its socket is open, and its session is connected and writes to it.
C8_OneConnectionPerClientId ==
    LET Served(c) == /\ pc[c] = "loop"
                     /\ sock[c] = "open"
                     /\ heap[sess[c]].connected
                     /\ heap[sess[c]].writer = c
    IN
    /\ \A c1, c2 \in Conns :
          (Served(c1) /\ Served(c2)
             /\ heap[sess[c1]].client_id = heap[sess[c2]].client_id) => c1 = c2
    /\ \A c \in Conns :
          (displaced[c] /\ Served(c)) => sessions[heap[sess[c]].client_id] = sess[c]
    /\ (connack.sent /\ connack.code = 0 /\ displaced[connack.conn]) =>
          /\ sessions[heap[connack.obj].client_id] = connack.obj
          /\ heap[connack.obj].connected
          /\ heap[connack.obj].writer = connack.conn
          /\ \A c \in Conns \ {connack.conn} :
                (sess[c] # 0 /\ heap[sess[c]].client_id = heap[connack.obj].client_id)
                    => sock[c] = "closed"

\* C9: an accepted CONNECT is answered with session-present = 1 exactly when
\* it has clean-session = false and the table held a persistent session for
\* the client id, and then that stored object is the session; otherwise the
\* session starts as a fresh one with the CONNECT's clean-session flag.
C9_SessionPresent ==
    (connack.sent /\ connack.code = 0) =>
        /\ connack.session_present
              <=> ((~connack.clean_session) /\ connack.stored # 0 /\ ~connack.stored_clean)
        /\ (connack.session_present =>
              connack.obj = connack.stored /\ connack.start = connack.stored_session)
        /\ ((~connack.session_present) =>
              connack.start = ClientSession(connack.start.client_id, connack.clean_session))

\* C10: after an accepted CONNECT with clean-session = true the client id
\* is matched for no topic, and the session has no pending entry and no
\* queued message.
C10_CleanSessionStartsEmpty ==
    (connack.sent /\ connack.code = 0 /\ connack.clean_session) =>
        LET s == heap[connack.obj] IN
        /\ \A tp \in Topics : s.client_id \notin DOMAIN match(subs, tp)
        /\ s.pending_qos1 = <<>>
        /\ s.pending_qos2 = <<>>
        /\ s.pending_qos2_out = <<>>
        /\ s.queued_messages = <<>>

\* C11: on every connection the first packet written to its socket is the
\* CONNACK, and no CONNACK is written while the on_connect hook of that
\* connection has not returned: no PUBLISH is written to the new writer first.
C11_ConnackFirst ==
    \A c \in Conns :
        /\ first[c] # "PUBLISH"
        /\ (pc[c] = "connect_hook" => first[c] = "none")

\* C12: the PUBLISH packets that a subscriber receives from one publisher
\* arrive in the order of publication: route_publish writes a message of
\* the publisher to the subscriber's socket only when no earlier message of
\* that publisher is still held in the subscriber's queued_messages (here
\* every queued message of "b" was published by "a").
C12_PublisherOrder ==
    route.called =>
        \A k \in route.copies :
            k.how = "sent" => route.before[k.obj].queued_messages = <<>>

C14_OfflineQueue ==
    route.called =>
        \A k \in Clients :
            LET sb == route.before[sessions[k]]
                sa == heap[sessions[k]]
                eff == Min(route.qos, route.granted[k])
                m == [topic |-> route.topic, payload |-> route.payload, qos |-> eff]
                queued == \E cp \in route.copies :
                              cp.client_id = k /\ cp.how = "queued"
                kept == IF Len(sb.queued_messages) >= config.max_queued_messages
                        THEN Tail(sb.queued_messages) ELSE sb.queued_messages
            IN (~sb.connected) =>
                 /\ queued <=> (~sb.clean_session /\ eff > 0)
                 /\ Len(sa.queued_messages) <= config.max_queued_messages
                 /\ sa.queued_messages = IF queued THEN Append(kept, m)
                                         ELSE sb.queued_messages

\* C15: the store never holds more than max_retained_messages retained
\* messages; setting a message on a topic that holds none while the store
\* is full evicts the least recently set topic and no other, and replacing
\* or clearing a message evicts nothing.
C15_RetainedBounded ==
    /\ get_retained_count(retained) <= config.max_retained_messages
    /\ last.op \in {"set", "clear"} =>
          LET msg == IF last.payload = "" THEN NoMsg
                     ELSE [set |-> TRUE, payload |-> last.payload, qos |-> last.qos]
              fresh == last.payload # "" /\ ~last.ret[last.topic].set
              full == get_retained_count(last.ret) >= config.max_retained_messages
          IN /\ retained[last.topic] = msg
             /\ IF fresh /\ full
                THEN /\ last.lru # <<>>
                     /\ \A tp \in RetainTopics \ {last.topic} :
                           retained[tp] = IF tp = Head(last.lru) THEN NoMsg
                                          ELSE last.ret[tp]
                ELSE \A tp \in RetainTopics \ {last.topic} :
                        retained[tp] = last.ret[tp]

\* C16: a topic whose first level begins with '$' is matched by no filter
\* whose first level is '#' or '+', in TopicTree.match and in
\* get_retained_matching alike; the filter $SYS/# does match the topics
\* under $SYS, and a topic that does not begin with '$' is matched by '#'.
C16_DollarTopics ==
    LET wild(f) == f[1] \in {"#", "+"}
        dollar(tp) == tp[1] \in SysLevels
        held == {f \in TreeFilters : subs[f]["a"] # NoSub}
        kept == {tp \in TreeTopics : retained[tp].set}
    IN /\ last.op = "match" =>
            /\ (dollar(last.topic) /\ \A f \in held : wild(f))
                    => "a" \notin last.clients
            /\ (last.topic[1] = "$SYS" /\ <<"$SYS", "#">> \in held)
                    => "a" \in last.clients
            /\ ((~dollar(last.topic)) /\ <<"#">> \in held)
                    => "a" \in last.clients
       /\ last.op = "get_retained_matching" =>
            /\ wild(last.filter) => \A tp \in last.topics : ~dollar(tp)
            /\ last.filter = <<"$SYS", "#">>
                    => last.topics = {tp \in kept : tp[1] = "$SYS"}
            /\ last.filter = <<"#">>
                    => last.topics = {tp \in kept : ~dollar(tp)}

\* match was called on a topic under $SYS while "a" held '#' and '+/x' and
\* no filter under $SYS, and did not return "a".
C16_Witness ==
    /\ last.op = "match"
    /\ last.topic = <<"$SYS", "x">>
    /\ subs[<<"#">>]["a"] # NoSub
    /\ subs[<<"+", "x">>]["a"] # NoSub
    /\ subs[<<"$SYS", "#">>]["a"] = NoSub
    /\ subs[<<"$SYS", "+">>]["a"] = NoSub
    /\ "a" \notin last.clients

\* C17: the session table never holds more than max_clients sessions,
\* whatever the interleaving of the connection attempts.
C17_TableBounded ==
    Cardinality({k \in Clients : sessions[k] # 0}) <= config.max_clients

\* C18: a PUBLISH whose payload is longer than max_payload_size is not
\* routed and not retained, and is acknowledged according to its QoS:
\* PUBACK for QoS 1, PUBREC for QoS 2.
C18_OversizeAcked ==
    (/\ last.op = "publish"
     /\ ~last.malformed
     /\ PayloadLen(last.pkt.payload) > config.max_payload_size) =>
        /\ ~route.called
        /\ retained = last.retained
        /\ last.ack = IF last.pkt.qos = 1 THEN "PUBACK"
                      ELSE IF last.pkt.qos = 2 THEN "PUBREC" ELSE "none"

\* C19: a PUBLISH refused because authorize_publish answers false, or
\* because it is QoS 2 while qos2_enabled is off, reaches no subscriber,
\* leaves the retained store and pending_qos2 as they were, and is
\* acknowledged according to its QoS; a later PUBREL for its packet id routes
\* nothing and is answered with PUBCOMP.
C19_RefusedPublish ==
    /\ (last.op = "publish" /\ last.outcome \in {"denied", "qos2_disabled"}) =>
          /\ ~route.called
          /\ retained = last.retained
          /\ heap[sess[last.conn]].pending_qos2
                = last.before[sess[last.conn]].pending_qos2
          /\ last.ack = IF last.pkt.qos = 1 THEN "PUBACK"
                        ELSE IF last.pkt.qos = 2 THEN "PUBREC" ELSE "none"
    /\ \A c \in Conns, p \in Pids :
          inb[c][p].refused =>
              /\ inb[c][p].routed = 0
              /\ inb[c][p].released => inb[c][p].pubcomp

\* C20: a malformed packet in the steady state (a PUBLISH with an empty
\* topic, with a wildcard in the topic or with packet id 0 at QoS above 0; a
\* SUBSCRIBE or UNSUBSCRIBE with packet id 0 or without a filter) ends the
\* connection with the teardown of an abrupt disconnect, which publishes the
\* will; the connection is not served any further.
C20_MalformedEnds ==
    (last.op \in {"publish", "subscribe", "unsubscribe"} /\ last.malformed) =>
        /\ pc[last.conn] # "loop"
        /\ last.before[last.conn].will.set => willPub[last.conn] = 1

\* C21: an exception raised by a hook or by an interceptor never ends the
\* connection: with every hook raising, a CONNECT is accepted with code 0 and
\* its task does not end with the socket left open, a valid PUBLISH passes
\* every interceptor, fires on_publish, is routed or tracked, is acknowledged
\* according to its QoS and leaves the connection in its main loop, as do a
\* SUBSCRIBE and an UNSUBSCRIBE, and the will of a connection that breaks is
\* published.
C21_HookExceptionContained ==
    /\ config.hooks = "raise" =>
          /\ connack.sent => connack.code = 0
          /\ \A c \in Conns : pc[c] = "done" => sock[c] = "closed"
          /\ (last.op \in {"subscribe", "unsubscribe"} /\ ~last.malformed) =>
                last.next = "loop"
          /\ (last.op = "break" /\ last.before[last.obj].will.set) =>
                willPub[last.before[last.obj].will.owner] >= 1
    /\ (/\ last.op = "publish"
        /\ ~last.malformed
        /\ PayloadLen(last.pkt.payload) <= config.max_payload_size) =>
          /\ last.ran = [i \in 1..Len(config.interceptors) |-> i]
          /\ last.fired
          /\ last.ctx = last.pkt
          /\ last.outcome = IF last.pkt.qos = 2 THEN "tracked" ELSE "routed"
          /\ last.ack = IF last.pkt.qos = 1 THEN "PUBACK"
                        ELSE IF last.pkt.qos = 2 THEN "PUBREC" ELSE "none"
          /\ last.next = "loop"

\* A PUBLISH was served under raising hooks and a raising interceptor, on a
\* connection whose CONNECT was accepted under the raising on_connect hook.
C21_Witness ==
    /\ config.hooks = "raise"
    /\ config.interceptors # <<>>
    /\ last.op = "publish"
    /\ last.outcome = "routed"
    /\ last.conn = 2
    /\ last.next = "loop"
    /\ first[2] = "CONNACK"

\* C22: every session installed as connected is torn down when its
\* connection ends, whatever ends it: a session marked connected is served
\* by a connection task that has not ended, and a clean session whose
\* connection has ended is neither in the table nor in the topic tree.
C22_TornDownAtEnd ==
    /\ \A o \in Objs :
          (heap[o] # NoSession /\ heap[o].connected) =>
              \E c \in Conns : pc[c] # "done" /\ (sess[c] = o \/ td[c].obj = o)
    /\ \A k \in Clients :
          (sessions[k] # 0 /\ heap[sessions[k]].clean_session) =>
              \E c \in Conns : pc[c] # "done" /\ (sess[c] = sessions[k]
                                                    \/ td[c].obj = sessions[k])

\* C23: after disconnect_client(client_id, graceful=True) has found the
\* session connected (it returns True), the will of that connection is never
\* published, also when the connection task later notices the closed socket
\* and unwinds.
C23_GracefulKickNoWill ==
    [][(last.op = "disconnect_client" /\ last.graceful /\ pc[Admin] = "done") =>
          willPub'[last.conn] = willPub[last.conn]]_vars

\* C24: a turn of the keep-alive sweep tears a session down abruptly
\* (marked disconnected, socket closed, will published) exactly when the
\* session is connected, has a keep-alive above 0 and has been idle for more
\* than keep_alive * keep_alive_factor; a session with keep-alive 0, one that
\* has not expired and one already disconnected are left as they were.
C24_SweepTearsDownExpired ==
    (last.op = "keep_alive" /\ last.obj # 0) =>
        LET b == last.before[last.obj]
            expired == /\ b.connected
                       /\ b.keep_alive > 0
                       /\ last.elapsed_ms * 10 > b.keep_alive * config.keep_alive_factor * 1000
        IN IF expired
           THEN /\ pc[KA] \in {"td_close", "sleep"} =>
                      /\ heap[last.obj] # NoSession => ~heap[last.obj].connected
                      /\ sock[b.writer] = "closed"
                /\ willPub[b.writer] = last.published[b.writer]
                                         + (IF b.will.set THEN 1 ELSE 0)
           ELSE /\ heap = last.before
                /\ sock = last.sock
                /\ willPub = last.published

\* The sweep has torn down a session with a will that was idle for 3001 ms
\* under a keep-alive of 2 s, and its will is published.
C24_Witness ==
    /\ last.op = "keep_alive"
    /\ last.obj # 0
    /\ last.elapsed_ms = 3001
    /\ last.before[last.obj].connected
    /\ last.before[last.obj].will.set
    /\ willPub[last.before[last.obj].writer] = 1
    /\ pc[KA] = "sleep"

\* C25: an outbound entry is retransmitted only by a sweep that finds it
\* due, at most qos_max_retries times, and the first sweep that finds it due
\* with that many retries removes it: every tracked outbound entry of a
\* session that stays connected is eventually removed.
C25_EntriesEventuallyRemoved ==
    \A p \in Pids :
        /\ [](p \in DOMAIN heap[2].pending_qos1 =>
                <>(p \notin DOMAIN heap[2].pending_qos1 \/ ~heap[2].connected))
        /\ [](p \in DOMAIN heap[2].pending_qos2_out =>
                <>(p \notin DOMAIN heap[2].pending_qos2_out \/ ~heap[2].connected))

\* C26: the retransmit task never dies: a PUBACK, a PUBCOMP or a new
\* delivery that changes the pending tables of a session while the sweep is
\* suspended in a send does not raise out of the sweep.
C26_SweepNeverDies == pc[Retx] # "dead"

\* The tasks inside the write and drain of the socket of connection c: the
\* retransmit task suspended in a send, the connection task suspended in
\* the drain of its CONNACK, and the publisher whose fan-out has just
\* written to it.
WritersOf(c) ==
    {k \in {"retransmit"} : /\ pc[Retx] = "retx_send"
                            /\ heap[td[Retx].obj].writer = c}
    \cup {k \in {"handshake"} : pc[c] = "connack_drain"}
    \cup {k \in {"fan-out"} :
             /\ route.called
             /\ \E cp \in route.copies :
                   cp.how = "sent" /\ heap[cp.obj].writer = c}

\* C27: at most one task at a time is inside the write and drain of the
\* socket of a session: a retransmitted packet, a packet of a publisher's
\* fan-out and the CONNACK of the handshake never overlap.
C27_OneWriterAtATime == \A c \in Conns : Cardinality(WritersOf(c)) <= 1

\* The topics of the recorded SUBSCRIBE that ask for the filter f and were
\* granted, and the filters the session held when the i-th topic was processed.
GrantedFor(f) ==
    {i \in 1..Len(last.pkt.topics) :
        last.pkt.topics[i].filter = f /\ last.suback.grants[i] # 128}

LastOf(S) == CHOOSE i \in S : \A j \in S : j <= i

GrantedBefore(i) == {j \in 1..(i - 1) : last.suback.grants[j] # 128}

HeldAt(i) ==
    {f \in SubRequested : last.before[f] # NoSub}
    \cup {last.pkt.topics[j].filter : j \in GrantedBefore(i)}

\* C28: a SUBSCRIBE that parses is answered by exactly one SUBACK with the
\* packet id of the request and one grant per requested filter in request
\* order; each grant is 0, 1, 2 or 0x80 and is not above the requested QoS
\* unless the on_subscribe hook returned it; the handling of a topic installs
\* its filter in the tree and in the session with the granted QoS when the
\* grant is not 0x80 and leaves both alone when it is 0x80.
C28_SubackGrants ==
    (last.op = "subscribe" /\ ~malformed_topics(last.pkt)) =>
        LET topics == last.pkt.topics
            grants == last.suback.grants
            s == heap[last.obj]
        IN /\ last.suback.sent = 1
           /\ last.suback.pid = last.pkt.pid
           /\ Len(grants) = Len(topics)
           /\ \A i \in 1..Len(topics) :
                 /\ grants[i] \in {0, 1, 2, 128}
                 /\ topics[i].hook = "none" =>
                       grants[i] = 128 \/ grants[i] <= topics[i].qos
           /\ \A f \in SubRequested :
                 IF GrantedFor(f) = {}
                 THEN /\ s.subscriptions[f] = last.before[f]
                      /\ subs[f] = last.tree[f]
                 ELSE /\ s.subscriptions[f] = grants[LastOf(GrantedFor(f))]
                      /\ subs[f][s.client_id] = grants[LastOf(GrantedFor(f))]

C28_Witness ==
    /\ last.op = "subscribe"
    /\ Len(last.pkt.topics) = 2
    /\ last.pkt.topics[1].filter # last.pkt.topics[2].filter
    /\ last.pkt.topics[1].qos = 1
    /\ last.suback.grants = <<2, 128>>
    /\ subs[last.pkt.topics[1].filter]["a"] = 2
    /\ last.before[last.pkt.topics[1].filter] = NoSub
    /\ validate_topic_filter(last.pkt.topics[2].filter)
    /\ subs[last.pkt.topics[2].filter]["a"] = NoSub

\* C29: a session never holds more than max_subscriptions_per_client filters,
\* and a topic processed while the session holds that many is granted 0x80
\* and its filter is not installed, also when the limit was reached by an
\* earlier topic of the same SUBSCRIBE.
C29_SubscriptionLimit ==
    /\ \A o \in Objs :
          heap[o] # NoSession => held_filters(heap[o]) <= max_subscriptions_per_client
    /\ (last.op = "subscribe" /\ ~malformed_topics(last.pkt)) =>
          \A i \in 1..Len(last.pkt.topics) :
             Cardinality(HeldAt(i)) >= max_subscriptions_per_client =>
                /\ last.suback.grants[i] = 128
                /\ last.pkt.topics[i].filter \notin HeldAt(i) =>
                      /\ heap[last.obj].subscriptions[last.pkt.topics[i].filter] = NoSub
                      /\ subs[last.pkt.topics[i].filter]["a"] = NoSub

\* The interceptors that the pipeline of the configuration calls: all of
\* them, or those up to the first one that drops.
Drops == {i \in 1..Len(config.interceptors) : config.interceptors[i] = "drop"}

Called ==
    IF Drops = {} THEN 1..Len(config.interceptors)
    ELSE 1..(CHOOSE i \in Drops : \A j \in Drops : i <= j)

\* The value that the called interceptors leave in a field that those of
\* kinds write: writes[k] is what an interceptor of kind k stores.
LeftBy(kinds, writes, given) ==
    LET setters == {i \in Called : config.interceptors[i] \in kinds}
    IN IF setters = {} THEN given
       ELSE writes[config.interceptors[LastOf(setters)]]

NoneConnected == \A k \in Clients : sessions[k] # 0 => ~heap[sessions[k]].connected

\* C31: once shutdown has cleared the running flag no CONNACK with return
\* code 0 is written, and eventually no session of the table is connected.
C31_ShutdownRefuses ==
    /\ [](~running => ~(connack.sent /\ connack.code = 0))
    /\ (~running ~> NoneConnected)

\* ------------------------------------------------- the inflight gate
\* Subscriber "b" is connected and holds <<"t">>; its three pending tables
\* and its queue are drawn, and so is max_queued_messages.
InflightQueues(limit) ==
    UNION {[1..n -> {[topic |-> <<"t">>, payload |-> "x", qos |-> q] : q \in 1..2}] :
              n \in 0..limit}

InflightSession(granted, p1, p2in, p2out, queue) ==
    [RouterSession("b", "connected", QueueGrants(granted), FALSE) EXCEPT
        !.pending_qos1 = p1,
        !.pending_qos2 = p2in,
        !.pending_qos2_out = p2out,
        !.packet_id_counter =
            Cardinality(DOMAIN p1 \cup DOMAIN p2out),
        !.queued_messages = queue]

InitInflight ==
    /\ \E granted \in QoS, limit \in 0..max_queued_messages,
          d1 \in {0, 1, MaxPid}, d2 \in 0..MaxPid :
          \E p1 \in [1..d1 -> {Qos1Entry}],
             p2out \in [(d1 + 1)..Min(d1 + 1, MaxPid) -> Qos2OutEntries] \cup {<<>>},
             p2in \in [1..d2 -> Qos2InEntries],
             queue \in InflightQueues(limit) :
          /\ heap = [o \in Objs |->
                       IF o = ObjOf("b")
                       THEN InflightSession(granted, p1, p2in, p2out, queue)
                       ELSE NoSession]
          /\ subs = [f \in Filters |->
                       [k \in Clients |->
                           IF k = "b" THEN QueueGrants(granted)[f] ELSE NoSub]]
          /\ config = [DefaultConfig EXCEPT !.max_queued_messages = limit]
    /\ sessions = [k \in Clients |-> IF k = "b" THEN ObjOf(k) ELSE 0]
    /\ sock = [c \in Conns |-> IF c = ObjOf("b") THEN "open" ELSE "new"]
    /\ retained = EmptyRetained
    /\ lru = <<>>
    /\ pc = [c \in Tasks |-> IF c = KA THEN "sleep" ELSE "new"]
    /\ sess = [c \in Tasks |-> 0]
    /\ td = [c \in Tasks |-> NoTd]
    /\ cdata = [c \in Tasks |-> NoData]
    /\ npackets = 0
    /\ route = NoRoute
    /\ connack = NoConnack
    /\ willPub = [c \in Conns |-> 0]
    /\ willLate = [c \in Conns |-> FALSE]
    /\ bye = [c \in Conns |-> <<>>]
    /\ discSent = [c \in Conns |-> FALSE]
    /\ inb = [c \in Conns |-> [p \in Pids |-> NoInb]]
    /\ displaced = [c \in Conns |-> FALSE]
    /\ last = NoCall
    /\ first = [c \in Conns |-> IF sock[c] = "open" THEN "CONNACK" ELSE "none"]

SpecInflight == InitInflight /\ [][RouteNext]_vars

\* C32: a copy for a connected subscriber with effective QoS 1 or 2 whose
\* three pending tables hold max_inflight entries or more is appended to
\* queued_messages (the oldest dropped first when the queue is full),
\* nothing is written, and the pending tables and the packet id counter
\* stay as they were; a copy with effective QoS 0 is sent.
C32_InflightGate ==
    route.called =>
        \A k \in DOMAIN route.granted :
            (sessions[k] # 0 /\ route.before[sessions[k]].connected) =>
                LET sb == route.before[sessions[k]]
                    sa == heap[sessions[k]]
                    eff == Min(route.qos, route.granted[k])
                    m == [topic |-> route.topic, payload |-> route.payload,
                          qos |-> eff]
                    kept == IF /\ Len(sb.queued_messages) >= config.max_queued_messages
                               /\ sb.queued_messages # <<>>
                            THEN Tail(sb.queued_messages) ELSE sb.queued_messages
                    sent == \E cp \in route.copies :
                                cp.client_id = k /\ cp.how = "sent"
                IN /\ (eff > 0 /\ get_inflight_count(sb) >= config.max_inflight) =>
                       /\ sa.queued_messages = Append(kept, m)
                       /\ ~sent
                       /\ sa.pending_qos1 = sb.pending_qos1
                       /\ sa.pending_qos2 = sb.pending_qos2
                       /\ sa.pending_qos2_out = sb.pending_qos2_out
                       /\ sa.packet_id_counter = sb.packet_id_counter
                   /\ eff = 0 => sent

\* The same with a queue that may hold a message.
InflightGateQueued ==
    config.max_queued_messages > 0 => C32_InflightGate

\* A copy queued behind a table that pending_qos2 and pending_qos2_out
\* fill, with the oldest queued message dropped.
InflightGateReached ==
    /\ route.called
    /\ route.qos = 2
    /\ config.max_queued_messages = 1
    /\ route.before[2].pending_qos1 = <<>>
    /\ get_inflight_count(route.before[2]) = max_inflight
    /\ Len(route.before[2].queued_messages) = 1
    /\ heap[2].queued_messages =
           <<[topic |-> <<"t">>, payload |-> "xx", qos |-> 2]>>

\* ------------------------------------- the store behind route_publish
\* route_publish with the retain flag (router.py 97-103): a client's
\* PUBLISH, a will, a $SYS publication; an empty payload clears.
RetainedRoute ==
    /\ \E topic \in RetainTopics, payload \in PublishPayloads \cup {""},
          qos \in {0, 1} :
          \E B \in {route_publish(Broker, topic, payload, qos, TRUE, NoSender)} :
          /\ retained' = B.retained
          /\ lru' = B.lru
          /\ heap' = B.heap
          /\ last' = [op |-> "route", topic |-> topic, payload |-> payload,
                      qos |-> qos, ret |-> retained, lru |-> lru]
    /\ UNCHANGED RetainedFrame

\* RetainedStore.clear() without a topic (broker.clear_retained()).
RetainedClearAll ==
    /\ retained' = [tp \in RetainTopics |-> NoMsg]
    /\ lru' = <<>>
    /\ last' = [op |-> "clear_all", topic |-> <<>>, payload |-> "", qos |-> 0,
                ret |-> retained, lru |-> lru]
    /\ UNCHANGED RetainedFrame

NextLru == RetainedSet \/ RetainedClear \/ RetainedRoute \/ RetainedClearAll

SpecLru == InitRetained /\ [][NextLru]_vars

Held(ret) == {tp \in RetainTopics : ret[tp].set}

\* C33: the LRU list holds exactly the topics with a retained message, each
\* once; a set or an update puts its topic at the tail and leaves the order
\* of the other remaining topics as it was, and a clear takes its topic out
\* and leaves the order of the others as it was.
C33_LruOrder ==
    /\ {lru[i] : i \in 1..Len(lru)} = Held(retained)
    /\ Len(lru) = Cardinality(Held(retained))
    /\ (last.op \in {"set", "route"} /\ last.payload # "") =>
          /\ lru # <<>>
          /\ lru[Len(lru)] = last.topic
          /\ SubSeq(lru, 1, Len(lru) - 1) =
                SelectSeq(last.lru,
                          LAMBDA tp : tp # last.topic /\ retained[tp].set)
    /\ (last.op \in {"set", "route", "clear"} /\ last.payload = "") =>
          lru = SelectSeq(last.lru, LAMBDA tp : tp # last.topic)

\* A routed update of the oldest of two retained topics moved it to the tail.
C33_Witness ==
    /\ last.op = "route"
    /\ last.payload # ""
    /\ Len(last.lru) = 2
    /\ last.lru[1] = last.topic
    /\ lru = <<last.lru[2], last.topic>>

\* C34: a message queued for the connected subscriber of connection 2
\* behind a full inflight window is sent (taken from queued_messages) once
\* the inflight count is below max_inflight again, while the subscriber
\* stays connected and the retransmit task runs.
C34_QueuedIsSent ==
    (/\ heap[2].connected
     /\ heap[2].queued_messages # <<>>
     /\ get_inflight_count(heap[2]) < config.max_inflight)
        ~> (\/ heap[2].queued_messages = <<>>
            \/ ~heap[2].connected
            \/ pc[Retx] = "dead")

\* Connection c is served: its task reads in the main loop, its socket is
\* open, and its session is connected and writes to it.
Served(c) ==
    /\ pc[c] = "loop"
    /\ sock[c] = "open"
    /\ heap[sess[c]].connected
    /\ heap[sess[c]].writer = c

\* The step is one of the unwinding of the task of connection c: it leaves
\* the main loop for the finally clause, or goes on in the teardown that
\* the finally clause started.
Unwinds(c) ==
    \/ pc[c] = "loop" /\ pc'[c] \in {"td_will", "td_close", "done"}
    \/ /\ pc[c] \in {"td_will", "td_close"}
       /\ td[c].cont = "done"
       /\ pc'[c] # pc[c]

\* C35: a step of the unwinding of a connection's task leaves a served
\* connection of the same client id as it was: its session stays connected,
\* its socket open, its will unpublished, its subscriptions in the tree,
\* and its client id mapped to its session.
C35_UnwindSparesNew ==
    [][\A old, new \in Conns :
          LET k == heap[sess[new]].client_id
          IN (/\ old # new
              /\ Served(new)
              /\ sess[old] # 0
              /\ heap[sess[old]].client_id = k
              /\ sessions[k] = sess[new]
              /\ Unwinds(old))
                => /\ heap'[sess[new]].connected
                   /\ sock'[new] = "open"
                   /\ willPub'[new] = willPub[new]
                   /\ \A f \in Filters : subs'[f][k] = subs[f][k]
                   /\ sessions'[k] = sessions[k]]_vars

\* ------------------------------------------------ the session expiry sweep
\* _session_cleanup_task (broker.py 1062-1070): SessionManager.cleanup_expired
\* deletes from the table every session that is neither connected nor clean
\* and whose last activity is older than session_expiry; which of them are
\* that old is drawn.  topic_tree.prune only removes nodes that hold
\* nothing.  The task has no state between two sweeps.
cleanup_expired(B, expired) ==
    [B EXCEPT !.sessions = [k \in Clients |-> IF k \in expired THEN 0 ELSE @[k]]]

SessionCleanup ==
    /\ running
    /\ \E expired \in SUBSET {k \in Clients :
                                /\ sessions[k] # 0
                                /\ ~heap[sessions[k]].connected
                                /\ ~heap[sessions[k]].clean_session} :
          /\ expired # {}
          /\ Commit(cleanup_expired(Broker, expired), KA, pc[KA], sess[KA], td[KA],
                    cdata[KA])
    /\ UNCHANGED <<npackets, inb, displaced, last>>

NextExpiry == Next \/ SessionCleanup

SpecExpiry == Init /\ [][NextExpiry]_vars

\* No task is suspended inside a handler or a teardown.
Quiet == \A c \in Tasks : pc[c] \in {"new", "sleep", "wait_connect", "loop", "done"}

\* C36: while no packet is being processed, the tree holds client k under
\* filter f with QoS g iff the table holds a session for k whose
\* subscriptions hold f with g.
C36_TreeMatchesSessions ==
    Quiet =>
        \A k \in Clients, f \in Filters :
            subs[f][k] = IF sessions[k] # 0
                         THEN heap[sessions[k]].subscriptions[f]
                         ELSE NoSub

\* --------------------------------------- between the send and the track
\* Connection 1 publishes to t and connection 2 is subscribed to t.
\* _send_to_subscriber (router.py 65-79) takes a packet id, awaits
\* session.send, and tracks the message when the send has returned;
\* session.send (session.py 94-114) writes under the write lock of the
\* session and is suspended in the drain.  last keeps the packet id being
\* sent and whether its acknowledgement was processed during the send.
InitGap ==
    \E granted \in {1, 2}, unacked \in 0..(max_inflight - 1),
       retries \in 0..qos_max_retries :
       Planted([o \in Conns |->
                   EstablishedSession(
                       o, [c \in Conns |-> TRUE], [c \in Conns |-> <<>>],
                       [c \in Conns |-> IF c = 2 THEN granted ELSE NoSub],
                       [c \in Conns |-> IF c = 2 THEN unacked ELSE 0],
                       [c \in Conns |-> FALSE])],
               [c \in Conns |-> IF c = 2 THEN granted ELSE NoSub],
               [DefaultConfig EXCEPT !.qos_max_retries = retries])

\* PUBLISH(t, qos 1 or 2) from c, up to the await of the send to the one
\* subscriber, whose inflight count is below max_inflight.
GapSend(c) ==
    /\ Reading(c)
    /\ \E qos \in 1..2 :
          LET o == sessions["b"]
              eff == effective_qos(qos, match(subs, <<"t">>)["b"])
              s1 == next_packet_id(heap[o])
              pid == s1.packet_id_counter
          IN /\ o # 0
             /\ heap[o].connected
             /\ heap[o].write_lock = 0
             /\ get_inflight_count(heap[o]) < config.max_inflight
             /\ Commit([Broker EXCEPT !.heap[o] =
                           [send(s1, Open(Broker, o)) EXCEPT !.write_lock = c]],
                       c, "route_send", sess[c], NoTd,
                       [obj |-> o, pid |-> pid, qos |-> eff, pub |-> qos])
             /\ last' = [op |-> "sending", obj |-> o, pid |-> pid, qos |-> eff,
                         acked |-> FALSE]
    /\ npackets' = npackets + 1
    /\ UNCHANGED <<inb, displaced>>

\* The send returns: the message is tracked (lines 68-69, 78-79), and
\* _process_publish acknowledges the publisher (broker.py 651-675).
GapResume(c) ==
    /\ pc[c] = "route_send"
    /\ LET f == cdata[c]
           s == [heap[f.obj] EXCEPT !.write_lock = 0]
           B1 == [Broker EXCEPT !.heap[f.obj] =
                     IF f.qos = 1
                     THEN track_outbound_qos1(s, f.pid, <<"t">>, "x", 1)
                     ELSE track_outbound_qos2(s, f.pid, <<"t">>, "x")]
       IN Handled(send_ack(B1, sess[c]), c)
    /\ last' = [last EXCEPT !.op = "tracked"]
    /\ UNCHANGED <<npackets, inb, displaced>>

\* _process_puback / _process_pubrec (broker.py 807-817) for a packet id
\* that is pending, or for the one whose PUBLISH is being sent.
GapAck(c) ==
    /\ Reading(c)
    /\ \E pid \in AckPids, kind \in {"PUBACK", "PUBREC"} :
          LET o == sess[c]
              r == IF kind = "PUBACK" THEN handle_puback(heap[o], pid)
                   ELSE handle_pubrec(heap[o], pid)
              B1 == [Broker EXCEPT !.heap[o] = r.s]
              during == /\ last.op = "sending"
                        /\ last.obj = o
                        /\ last.pid = pid
                        /\ last.qos = IF kind = "PUBACK" THEN 1 ELSE 2
          IN /\ r.ret \/ during
             /\ (kind = "PUBREC" /\ r.ret) => heap[o].write_lock = 0
             /\ Handled(IF kind = "PUBREC" /\ r.ret THEN send_ack(B1, o) ELSE B1, c)
             /\ last' = IF during THEN [last EXCEPT !.acked = TRUE] ELSE last
    /\ npackets' = npackets + 1
    /\ UNCHANGED <<inb, displaced>>

NextGap ==
    \/ GapSend(1)
    \/ GapResume(1)
    \/ GapAck(2)
    \/ RetransmitBegin(2)
    \/ RetransmitResume
    \/ Elapse

SpecGap == InitGap /\ [][NextGap]_vars

\* C37: when the acknowledgement of packet id p was processed while the
\* PUBLISH p was being sent, the message is not tracked once the send has
\* returned: p is not in pending_qos1, and not in pending_qos2_out awaiting
\* PUBREC.
C37_AckInTheGap ==
    (last.op = "tracked" /\ last.acked) =>
        LET s == heap[last.obj]
        IN /\ last.pid \notin DOMAIN s.pending_qos1
           /\ last.pid \in DOMAIN s.pending_qos2_out =>
                 s.pending_qos2_out[last.pid].state # AWAITING_PUBREC

\* ------------------------------------------ the packet id counter wraps
\* Subscriber "b" is connected and holds <<"t">>.  Its counter is at the
\* start, or has gone round to the end of its range while one message sent
\* earlier is still unacknowledged: an entry lives until it is acknowledged
\* or retransmitted qos_max_retries times, qos_retry_interval apart, and
\* next_packet_id is called for every QoS 1/2 message sent meanwhile.
WrapCounters == {0, PacketIdLimit - 1, PacketIdLimit}

WrapTables ==
    {[p1 |-> <<>>, p2out |-> <<>>]}
        \cup {[p1 |-> With(<<>>, p, Qos1Entry), p2out |-> <<>>] : p \in Pids}
        \cup {[p1 |-> <<>>, p2out |-> With(<<>>, p, e)] :
                 p \in Pids, e \in Qos2OutEntries}

InitWrap ==
    /\ \E granted \in 1..2, counter \in WrapCounters, tb \in WrapTables :
          /\ counter = 0 => tb = [p1 |-> <<>>, p2out |-> <<>>]
          /\ heap = [o \in Objs |->
                       IF o = ObjOf("b")
                       THEN [InflightSession(granted, tb.p1, <<>>, tb.p2out, <<>>)
                                EXCEPT !.packet_id_counter = counter]
                       ELSE NoSession]
          /\ subs = [f \in Filters |->
                       [k \in Clients |->
                           IF k = "b" THEN QueueGrants(granted)[f] ELSE NoSub]]
    /\ config = DefaultConfig
    /\ sessions = [k \in Clients |-> IF k = "b" THEN ObjOf(k) ELSE 0]
    /\ sock = [c \in Conns |-> IF c = ObjOf("b") THEN "open" ELSE "new"]
    /\ retained = EmptyRetained
    /\ lru = <<>>
    /\ pc = [c \in Tasks |-> IF c = KA THEN "sleep" ELSE "new"]
    /\ sess = [c \in Tasks |-> 0]
    /\ td = [c \in Tasks |-> NoTd]
    /\ cdata = [c \in Tasks |-> NoData]
    /\ npackets = 0
    /\ route = NoRoute
    /\ connack = NoConnack
    /\ willPub = [c \in Conns |-> 0]
    /\ willLate = [c \in Conns |-> FALSE]
    /\ bye = [c \in Conns |-> <<>>]
    /\ discSent = [c \in Conns |-> FALSE]
    /\ inb = [c \in Conns |-> [p \in Pids |-> NoInb]]
    /\ displaced = [c \in Conns |-> FALSE]
    /\ last = NoCall
    /\ first = [c \in Conns |-> IF sock[c] = "open" THEN "CONNACK" ELSE "none"]

SpecWrap == InitWrap /\ [][RouteNext]_vars

\* C38: the packet id of a QoS 1/2 PUBLISH sent by route_publish is in
\* 1..65535 and is the id of no message of the session that was awaiting
\* its acknowledgement in pending_qos1 or pending_qos2_out.
C38_FreshPacketId ==
    route.called =>
        \A cp \in route.copies :
            (cp.how = "sent" /\ cp.pkt.qos > 0) =>
                /\ cp.pkt.pid \in 1..PacketIdLimit
                /\ cp.pkt.pid \notin DOMAIN route.before[cp.obj].pending_qos1
                /\ cp.pkt.pid \notin DOMAIN route.before[cp.obj].pending_qos2_out

\* ------------------------------------------------- a CONNECT is refused
\* Connection 1 serves "a"; "b" has a stored persistent session with a
\* subscription, an unacknowledged message and queued messages.  A CONNECT
\* on connection 2 names either of them and is refused.  last keeps the
\* table, the sessions and the tree as they were when the CONNECT arrived.
RefusalCodes == {1, 2, 4, 5}

Arrival(c) ==
    [op |-> "connect", conn |-> c, heap |-> heap, sessions |-> sessions,
     subs |-> subs]

\* The checks before the session table is looked at (lines 433-484):
\* protocol name or level (0x01), client id (0x02), credentials (0x04),
\* anonymous access (0x05).  CONNACK is written, the writer closed, and
\* _handle_client returns.
ConnectRefused(c) ==
    /\ pc[c] = "wait_connect"
    /\ running
    /\ \E code \in RefusalCodes :
          Commit([Broker EXCEPT
                     !.connack = [sent |-> TRUE, conn |-> c, code |-> code,
                                  session_present |-> FALSE],
                     !.sock[c] = "closed"],
                 c, "done", 0, NoTd, NoData)
    /\ last' = Arrival(c)
    /\ UNCHANGED <<npackets, inb, displaced>>

\* The CONNECT passes these checks and the on_connect hook returns False
\* (lines 487-549).
ConnectHookRefuses(c) == ConnectFrom(c, {FALSE}) /\ last' = Arrival(c)

InitRefused == InitResume

NextRefused ==
    \/ Accept(2)
    \/ ConnectRefused(2)
    \/ ConnectHookRefuses(2)
    \/ TdResume(2)
    \/ ConnBreak(1)
    \/ TdResume(1)

SpecRefused == InitRefused /\ [][NextRefused]_vars

\* C39: once a CONNECT was answered with a non-zero return code, every
\* session that the table held when it arrived is still in the table as it
\* was, with its subscriptions in the tree; one that was connected is
\* connected, its socket open and its will unpublished.
C39_RefusalSparesSessions ==
    (connack.sent /\ connack.code # 0 /\ last.op = "connect") =>
        \A k \in Clients :
            LET o == last.sessions[k]
            IN o # 0 =>
                 /\ sessions[k] = o
                 /\ heap[o] = last.heap[o]
                 /\ \A f \in Filters : subs[f][k] = last.subs[f][k]
                 /\ last.heap[o].connected =>
                       /\ sock[last.heap[o].writer] = "open"
                       /\ willPub[last.heap[o].writer] = 0

\* The same for the refusals that precede the session table.
RefusedEarlySpares ==
    (connack.sent /\ connack.code # 5) => C39_RefusalSparesSessions

\* ------------------------------------------- a registered on_disconnect
\* The broker with an on_disconnect hook; connection 1 serves "a", "b" has
\* a stored session, and connections end in every way.
InitBye ==
    \E granted \in {NoSub, 1} :
        Returning(HookSession(granted),
                  [DefaultConfig EXCEPT !.on_disconnect = "registered"])

SpecBye == InitBye /\ [][NextEnds]_vars

\* The task of connection c has ended and no teardown is under way.
Ended(c) ==
    /\ pc[c] = "done"
    /\ first[c] = "CONNACK"
    /\ \A t \in Tasks : pc[t] \notin {"td_will", "td_close"}

\* C40: the on_disconnect hook is called at most once for a connection,
\* with graceful = TRUE iff the client sent DISCONNECT on it, and it has
\* been called once when the connection has ended.
C40_DisconnectHookOnce ==
    \A c \in Conns :
        /\ Len(bye[c]) <= 1
        /\ bye[c] # <<>> => bye[c][1] = discSent[c]
        /\ Ended(c) => bye[c] # <<>>

====
